---- MODULE Spec2Model ----
(***************************************************************************)
(* Pascal plagiarism detector: the syntactic similarity engine             *)
(* (PascalPlagiarismDetector) with its collaborators.                      *)
(*                                                                         *)
(* The detector class is translated from                                   *)
(* backend/src/services/plagiarism/pascalPlagiarismDetector.ts.  The       *)
(* tokenizer, the fingerprint index, Pair and Fragment are imported by     *)
(* that file but are not part of the sources at hand; they are modelled    *)
(* from sections 4.1 - 4.6 of the specification.                           *)
(*                                                                         *)
(* Numbers: JavaScript doubles are modelled as exact rationals <<n, d>>    *)
(* with d > 0; comparisons are made by cross-multiplication.               *)
(***************************************************************************)
EXTENDS Integers, Sequences, FiniteSets, TLC

\* ------------------------------------------------------------------------
\* Bounds of the model
\* ------------------------------------------------------------------------

\* longest source text (in characters) of an input file
MaxLen == 4

\* largest number of input files of a batch
MaxFiles == 3

\* ------------------------------------------------------------------------
\* State
\* ------------------------------------------------------------------------

VARIABLES
  constructed,      \* a detector object exists
  kgramSize,        \* this.kgramSize
  windowSize,       \* this.windowSize
  syntacticWeight,  \* this.syntacticWeight
  initialized,      \* this.initialized
  fileA,            \* the two source texts at hand
  fileB,
  run1,             \* the first completed detectPlagiarism call
  run2,             \* the second completed detectPlagiarism call
  batch,            \* the detectBatchPlagiarism call in progress
  scored,           \* the last fragment, file or pair taken through a single step
  calls,            \* the asynchronous calls in progress on the detector
  http,             \* the request the HTTP server is handling
  dashboard,        \* the state of the AnalysisDashboard component
  shell             \* the Electron main process

\* the variables of the applications around the detector
appVars == <<calls, http, dashboard, shell>>

vars == <<constructed, kgramSize, windowSize, syntacticWeight, initialized,
          fileA, fileB, run1, run2, batch, scored, appVars>>

\* the variables of the detector and of its calls
detectorVars == <<constructed, kgramSize, windowSize, syntacticWeight, initialized,
                  fileA, fileB, run1, run2, batch, scored>>

\* ------------------------------------------------------------------------
\* Rationals
\* ------------------------------------------------------------------------

Rat(n, d) == <<n, d>>

RLeq(a, b) == a[1] * b[2] <= b[1] * a[2]

RLt(a, b) == a[1] * b[2] < b[1] * a[2]

REq(a, b) == a[1] * b[2] = b[1] * a[2]

RMul(a, b) == <<a[1] * b[1], a[2] * b[2]>>

RAdd(a, b) == <<a[1] * b[2] + b[1] * a[2], a[2] * b[2]>>

RMin(a, b) == IF RLeq(a, b) THEN a ELSE b

Max(a, b) == IF a >= b THEN a ELSE b

Min(a, b) == IF a <= b THEN a ELSE b

\* the value undefined of an optional number (no rational has denominator 0)
Undefined == <<0, 0>>

\* ------------------------------------------------------------------------
\* Source texts
\* ------------------------------------------------------------------------


\* the texts analysed: every text of identifier and punctuation characters
\* up to MaxLen characters, a text of two lines, a text with a string
\* literal and a text with an unterminated string literal
CodeChars == {"x", ";"}

RECURSIVE TextsOfLen(_)
TextsOfLen(n) ==
  IF n = 0 THEN {<< >>}
  ELSE {Append(t, c) : t \in TextsOfLen(n - 1), c \in CodeChars}

OtherTexts == {<<"x", ";", "\n", "x">>, <<"'", "x", "'", ";">>, <<"'">>}

Texts == UNION {TextsOfLen(n) : n \in 0..MaxLen} \cup OtherTexts

\* ------------------------------------------------------------------------
\* 4.1 Tokenizer (PascalTokenizer.tokenizeFile)
\* ------------------------------------------------------------------------

\* first index >= i of text that does not hold character c (Len + 1 if none)
RECURSIVE SkipWhile(_, _, _)
SkipWhile(text, i, c) ==
  IF i > Len(text) \/ text[i] # c THEN i ELSE SkipWhile(text, i + 1, c)

\* first index >= i of text that holds the string delimiter or a line feed
RECURSIVE StringEnd(_, _)
StringEnd(text, i) ==
  IF i > Len(text) \/ text[i] \in {"'", "\n"} THEN i ELSE StringEnd(text, i + 1)

\* the lexer: acc is the sequence of tokens emitted so far, each with the
\* row it starts on; an unterminated string literal is a LexError
RECURSIVE Lex(_, _, _, _)
Lex(text, i, row, acc) ==
  IF i > Len(text) THEN [ok |-> TRUE, toks |-> acc]
  ELSE IF text[i] = "\n" THEN Lex(text, i + 1, row + 1, acc)
  ELSE IF text[i] = ";" THEN
    Lex(text, i + 1, row, Append(acc, [value |-> ";", startRow |-> row]))
  ELSE IF text[i] = "x" THEN
    Lex(text, SkipWhile(text, i, "x"), row,
        Append(acc, [value |-> "IDENT", startRow |-> row]))
  ELSE
    LET j == StringEnd(text, i + 1) IN
      IF j > Len(text) \/ text[j] = "\n"
      THEN [ok |-> FALSE, toks |-> << >>]
      ELSE Lex(text, j + 1, row, Append(acc, [value |-> "STR", startRow |-> row]))

\* TokenizedFile: the tokens and the parallel position map
tokenizeFile(content) ==
  LET r == Lex(content, 1, 1, << >>) IN
    [ok      |-> r.ok,
     tokens  |-> [k \in 1..Len(r.toks) |-> r.toks[k].value],
     mapping |-> [k \in 1..Len(r.toks) |-> r.toks[k].startRow]]

\* ------------------------------------------------------------------------
\* 4.2 K-gram hasher
\* ------------------------------------------------------------------------

\* interned token values
TokenId(value) ==
  CASE value = "IDENT" -> 1
    [] value = ";" -> 2
    [] OTHER -> 3

\* rolling polynomial hash; the width is cut to 16 bits (the low 16 bits of
\* the 64-bit seed and multiplier of the specification)
HashMod == 65536

HashSeed == 8997

HashMult == 435

RECURSIVE HashFrom(_, _, _, _)
HashFrom(tokens, p, n, h) ==
  IF n = 0 THEN h
  ELSE HashFrom(tokens, p + 1, n - 1, (h * HashMult + TokenId(tokens[p])) % HashMod)

\* the hashes of the k-grams of a token sequence: entry p + 1 is the hash of
\* the k-gram at k-gram position p (tokens p .. p + K - 1, counted from 0)
KGramHashes(tokens, K) ==
  [q \in 1..Max(0, Len(tokens) - K + 1) |-> HashFrom(tokens, q, K, HashSeed)]

\* ------------------------------------------------------------------------
\* 4.3 Winnowing selector
\* ------------------------------------------------------------------------

\* the k-gram positions of the window that starts at position s; a sequence
\* with fewer than W hashes is one (short) window
Window(hashes, W, s) == s..(Min(s + W, Len(hashes)) - 1)

\* the rightmost position of the minimal hash of a non-empty window
RightmostMin(hashes, win) ==
  CHOOSE p \in win :
    \A q \in win : hashes[p + 1] < hashes[q + 1]
                   \/ (hashes[p + 1] = hashes[q + 1] /\ p >= q)

\* the selected k-gram positions; a position selected by consecutive windows
\* is emitted once
Winnow(hashes, W) ==
  {RightmostMin(hashes, Window(hashes, W, s)) :
     s \in {t \in 0..Max(0, Len(hashes) - W) : Window(hashes, W, t) # {}}}

\* ------------------------------------------------------------------------
\* 4.4 Fingerprint index, 4.5 pair analyser
\* ------------------------------------------------------------------------

\* a set of integers as an increasing sequence
RECURSIVE SortedSeq(_)
SortedSeq(S) ==
  IF S = {} THEN << >>
  ELSE LET m == CHOOSE x \in S : \A y \in S : x <= y
       IN <<m>> \o SortedSeq(S \ {m})

\* FingerprintIndex.addFiles for one file: the k-gram hashes of the file and
\* the positions selected by winnowing
Fingerprints(tf, K, W) ==
  LET hs == KGramHashes(tf.tokens, K) IN
    [hashes |-> hs, selected |-> Winnow(hs, W)]

\* an occurrence of a k-gram: its k-gram index and its token range
Occurrence(pos, K) == [index |-> pos, start |-> pos, stop |-> pos + K - 1]

\* the shared k-grams of the selected position l of the left file, in the
\* order of the right positions
RECURSIVE SharedOfLeft(_, _, _, _, _)
SharedOfLeft(l, rs, fa, fb, K) ==
  IF rs = << >> THEN << >>
  ELSE (IF fa.hashes[l + 1] = fb.hashes[Head(rs) + 1]
        THEN <<[left |-> Occurrence(l, K), right |-> Occurrence(Head(rs), K)]>>
        ELSE << >>)
       \o SharedOfLeft(l, Tail(rs), fa, fb, K)

\* the cross product of the positions of every hash selected in both files,
\* sorted by left position, then by right position
RECURSIVE SharedKGrams(_, _, _, _, _)
SharedKGrams(ls, rs, fa, fb, K) ==
  IF ls = << >> THEN << >>
  ELSE SharedOfLeft(Head(ls), rs, fa, fb, K) \o SharedKGrams(Tail(ls), rs, fa, fb, K)

\* the longest run of consecutive positions of S that ends at position p
RECURSIVE RunEndingAt(_, _)
RunEndingAt(S, p) == IF p \in S THEN 1 + RunEndingAt(S, p - 1) ELSE 0

LongestRun(S) ==
  IF S = {} THEN 0
  ELSE LET best == CHOOSE n \in {RunEndingAt(S, p) : p \in S} :
                     \A p \in S : RunEndingAt(S, p) <= n
       IN best

\* the Pair of two files: shared is the sorted list of their shared
\* k-grams, leftTotal and rightTotal count their selected fingerprints
Pair(shared, leftTotal, rightTotal, K) ==
  LET lcov == {shared[n].left.index : n \in 1..Len(shared)}
      rcov == {shared[n].right.index : n \in 1..Len(shared)}
  IN [pairs        |-> shared,
      overlap      |-> Len(shared),
      leftTotal    |-> leftTotal,
      rightTotal   |-> rightTotal,
      leftCovered  |-> Cardinality(lcov),
      rightCovered |-> Cardinality(rcov),
      similarity   |-> IF leftTotal = 0 \/ rightTotal = 0 THEN Rat(0, 1)
                       ELSE Rat(2 * Len(shared), leftTotal + rightTotal),
      longest      |-> IF shared = << >> THEN 0 ELSE LongestRun(lcov) + K - 1]

\* the shared-fingerprint structure of two indexed files
PairOfFingerprints(fa, fb, K) ==
  Pair(SharedKGrams(SortedSeq(fa.selected), SortedSeq(fb.selected), fa, fb, K),
       Cardinality(fa.selected), Cardinality(fb.selected), K)

\* FingerprintIndex.getPair: the shared-fingerprint structure of (a, b)
getPair(tfa, tfb, K, W) ==
  PairOfFingerprints(Fingerprints(tfa, K, W), Fingerprints(tfb, K, W), K)

\* ------------------------------------------------------------------------
\* 4.6 Fragment builder (Pair.buildFragments)
\* ------------------------------------------------------------------------

GapTolerance == 1

DriftBand == 1

\* a shared k-gram extends the fragment whose shared k-grams are cur
Extends(cur, s) ==
  LET first == cur[1]
      last == cur[Len(cur)]
      drift == (s.right.index - s.left.index) - (first.right.index - first.left.index)
  IN /\ s.left.index - last.left.index <= GapTolerance
     /\ s.right.index - last.right.index <= GapTolerance
     /\ drift <= DriftBand
     /\ 0 - drift <= DriftBand

\* the greedy clustering: cur is the open fragment, rest the shared k-grams
\* not yet seen
RECURSIVE Cluster(_, _)
Cluster(cur, rest) ==
  IF rest = << >> THEN <<cur>>
  ELSE IF Extends(cur, Head(rest))
       THEN Cluster(Append(cur, Head(rest)), Tail(rest))
       ELSE <<cur>> \o Cluster(<<Head(rest)>>, Tail(rest))

\* a Fragment: its shared k-grams and its k-gram ranges [from, to)
Fragment(ps) ==
  [pairs       |-> ps,
   leftkgrams  |-> [from |-> ps[1].left.index, to |-> ps[Len(ps)].left.index + 1],
   rightkgrams |-> [from |-> ps[1].right.index, to |-> ps[Len(ps)].right.index + 1]]

RangeLength(r) == r.to - r.from

buildFragments(pair, minOccurrences) ==
  LET clusters == IF pair.pairs = << >> THEN << >>
                  ELSE Cluster(<<Head(pair.pairs)>>, Tail(pair.pairs))
      kept == SelectSeq(clusters, LAMBDA c : Len(c) >= minOccurrences)
  IN [n \in 1..Len(kept) |-> Fragment(kept[n])]

\* ------------------------------------------------------------------------
\* JavaScript helpers used by the detector
\* ------------------------------------------------------------------------

\* a || b on numbers: 0 is falsy
OrElse(a, b) == IF a = 0 THEN b ELSE a

\* Array.prototype.slice(from, to) with indices counted from 0
Slice(seq, from, to) ==
  LET n == Len(seq)
      lo == IF from < 0 THEN Max(n + from, 0) ELSE Min(from, n)
      hi == IF to < 0 THEN Max(n + to, 0) ELSE Min(to, n)
  IN [k \in 1..Max(0, hi - lo) |-> seq[lo + k]]

\* String.prototype.split('\n'): the lines of a text, each a character sequence
RECURSIVE SplitLines(_, _, _)
SplitLines(text, i, cur) ==
  IF i > Len(text) THEN <<cur>>
  ELSE IF text[i] = "\n" THEN <<cur>> \o SplitLines(text, i + 1, << >>)
  ELSE SplitLines(text, i + 1, Append(cur, text[i]))

\* Array.prototype.join('\n')
RECURSIVE JoinLines(_)
JoinLines(lines) ==
  IF lines = << >> THEN << >>
  ELSE IF Len(lines) = 1 THEN lines[1]
  ELSE lines[1] \o <<"\n">> \o JoinLines(Tail(lines))

RECURSIVE SumSeq(_)
SumSeq(seq) == IF seq = << >> THEN 0 ELSE Head(seq) + SumSeq(Tail(seq))

\* ------------------------------------------------------------------------
\* PascalPlagiarismDetector: fragment mapping
\* ------------------------------------------------------------------------

\* the line of an index outside the position map is 0
getLineNumber_Zero(tokenIndex, tokenizedFile) ==
  IF tokenIndex < 0 \/ tokenIndex >= Len(tokenizedFile.mapping) THEN 0
  ELSE OrElse(tokenizedFile.mapping[tokenIndex + 1], 1)

getLineNumber(tokenIndex, tokenizedFile) ==
  IF tokenIndex < 0 \/ tokenIndex >= Len(tokenizedFile.mapping) THEN 1
  ELSE OrElse(tokenizedFile.mapping[tokenIndex + 1], 1)

extractCodeSnippet(lines, startLine, endLine) ==
  LET start == Max(0, startLine - 1)
      end == Min(Len(lines), endLine)
  IN JoinLines(Slice(lines, start, end))

\* the lines of the snippet, each with the line number put in front of it
addLineNumbers(code, startLine) ==
  LET lines == SplitLines(code, 1, << >>) IN
    [k \in 1..Len(lines) |-> [lineNumber |-> startLine + k - 1, line |-> lines[k]]]

\* the three terms weighted by 0.4, 0.3 and 0.3 instead of capped at them
calculateFragmentConfidence_Weighted(fragment, tokenCount) ==
  LET P == Len(fragment.pairs)
      expectedPairs == Max(1, RangeLength(fragment.leftkgrams))
      c1 == RMul(Rat(4, 10), RMin(Rat(1, 1), Rat(tokenCount, 50)))
      c2 == RMul(Rat(3, 10), RMin(Rat(1, 1), Rat(P, 10)))
      c3 == RMul(Rat(3, 10), RMin(Rat(1, 1), Rat(P, expectedPairs)))
  IN RMin(Rat(1, 1), RAdd(RAdd(c1, c2), c3))

calculateFragmentConfidence(fragment, tokenCount) ==
  LET P == Len(fragment.pairs)
      kgramRange == RangeLength(fragment.leftkgrams)
      expectedPairs == Max(1, kgramRange)
      c1 == RMin(Rat(4, 10), Rat(tokenCount, 50))
      c2 == RMin(Rat(3, 10), Rat(P, 10))
      c3 == RMin(Rat(3, 10), Rat(3 * P, 10 * expectedPairs))
  IN RMin(Rat(1, 1), RAdd(RAdd(c1, c2), c3))

\* the class boundaries compared with > instead of >=
determineFragmentType_Strict(confidence) ==
  IF RLt(Rat(8, 10), confidence) THEN "EXACT"
  ELSE IF RLt(Rat(6, 10), confidence) THEN "SIMILAR"
  ELSE "STRUCTURAL"

determineFragmentType(confidence) ==
  IF RLeq(Rat(8, 10), confidence) THEN "EXACT"
  ELSE IF RLeq(Rat(6, 10), confidence) THEN "SIMILAR"
  ELSE "STRUCTURAL"

createTokenPattern(tokens) ==
  IF Len(tokens) > 20
  THEN Slice(tokens, 0, 10) \o <<"...">> \o Slice(tokens, 0 - 10, Len(tokens))
  ELSE tokens

\* the local similarity without Math.min(1.0, localSimilarity)
localSimilarityOf_Unclamped(pairCount, tokenCount, K) ==
  IF tokenCount >= K /\ tokenCount > 0
  THEN Rat(pairCount * K, tokenCount)
  ELSE Rat(pairCount, 1)

\* pairs.length / Math.max(1, sharedTokens.length / kgramSize), at most 1
localSimilarityOf(pairCount, tokenCount, K) ==
  RMin(Rat(1, 1),
       IF tokenCount >= K /\ tokenCount > 0
       THEN Rat(pairCount * K, tokenCount)
       ELSE Rat(pairCount, 1))

createMappedFragment(fragment, fragmentId, tokenizedFile1, tokenizedFile2, file1Code, file2Code, K) ==
  LET n == Len(fragment.pairs)
      file1TokenStart == OrElse(fragment.pairs[1].left.start, fragment.leftkgrams.from)
      file1TokenEnd == OrElse(fragment.pairs[n].left.stop, fragment.leftkgrams.to - 1)
      file2TokenStart == OrElse(fragment.pairs[1].right.start, fragment.rightkgrams.from)
      file2TokenEnd == OrElse(fragment.pairs[n].right.stop, fragment.rightkgrams.to - 1)
      sharedTokens == Slice(tokenizedFile1.tokens, file1TokenStart, file1TokenEnd + 1)
      file1LineStart == getLineNumber(file1TokenStart, tokenizedFile1)
      file1LineEnd == getLineNumber(file1TokenEnd, tokenizedFile1)
      file2LineStart == getLineNumber(file2TokenStart, tokenizedFile2)
      file2LineEnd == getLineNumber(file2TokenEnd, tokenizedFile2)
      file1Snippet == extractCodeSnippet(SplitLines(file1Code, 1, << >>),
                                         file1LineStart, file1LineEnd)
      file2Snippet == extractCodeSnippet(SplitLines(file2Code, 1, << >>),
                                         file2LineStart, file2LineEnd)
      confidence == calculateFragmentConfidence(fragment, Len(sharedTokens))
  IN [fragmentId       |-> fragmentId,
      confidence       |-> confidence,
      fragmentType     |-> determineFragmentType(confidence),
      file1Lines       |-> [start |-> file1LineStart, end |-> file1LineEnd,
                            count |-> file1LineEnd - file1LineStart + 1],
      file2Lines       |-> [start |-> file2LineStart, end |-> file2LineEnd,
                            count |-> file2LineEnd - file2LineStart + 1],
      file1TokenRange  |-> [start |-> file1TokenStart, end |-> file1TokenEnd,
                            tokens |-> file1TokenEnd - file1TokenStart + 1],
      file2TokenRange  |-> [start |-> file2TokenStart, end |-> file2TokenEnd,
                            tokens |-> file2TokenEnd - file2TokenStart + 1],
      sharedTokens     |-> sharedTokens,
      tokenPattern     |-> createTokenPattern(sharedTokens),
      file1CodeSnippet |-> file1Snippet,
      file2CodeSnippet |-> file2Snippet,
      file1CodeWithLineNumbers |-> addLineNumbers(file1Snippet, file1LineStart),
      file2CodeWithLineNumbers |-> addLineNumbers(file2Snippet, file2LineStart),
      localSimilarity  |-> localSimilarityOf(n, Len(sharedTokens), K),
      sharedFingerprints |-> n]

\* a fragment passes with either of the two conditions
IsSignificant_Either(f, K) ==
  RLeq(Rat(3, 10), f.confidence) \/ Len(f.sharedTokens) >= K

\* the significance filter of mapFragments
IsSignificant(f, K) ==
  RLeq(Rat(3, 10), f.confidence) /\ Len(f.sharedTokens) >= K

\* the value mapFragments returns, from the mapped fragments and those that
\* pass the filter
MappingResult(mappedFragments, significantFragments) ==
  [mappedFragments            |-> significantFragments,
   totalMappedFragments       |-> Len(mappedFragments),
   significantMappedFragments |-> Len(significantFragments),
   totalSharedLines |->
     SumSeq([n \in 1..Len(significantFragments) |->
               significantFragments[n].file1Lines.count]),
   totalSharedTokens |->
     SumSeq([n \in 1..Len(significantFragments) |->
               Len(significantFragments[n].sharedTokens)])]

\* the significance filter on the mapped fragments, and the value returned
FilterSignificant(mappedFragments, K) ==
  MappingResult(mappedFragments,
                SelectSeq(mappedFragments, LAMBDA f : IsSignificant(f, K)))

\* fragments.map(createMappedFragment) and the significance filter
MapAndFilter(fragments, tokenizedFile1, tokenizedFile2, file1Code, file2Code, K) ==
  FilterSignificant([n \in 1..Len(fragments) |->
                       createMappedFragment(fragments[n], n, tokenizedFile1,
                                            tokenizedFile2, file1Code, file2Code, K)],
                    K)

mapFragments(pair, tokenizedFile1, tokenizedFile2, file1Code, file2Code, K) ==
  MapAndFilter(buildFragments(pair, 1), tokenizedFile1, tokenizedFile2,
               file1Code, file2Code, K)

\* ------------------------------------------------------------------------
\* PascalPlagiarismDetector: analysis and verdict
\* ------------------------------------------------------------------------

\* the coverages taken from the overlap instead of the covered positions
SyntacticResult_OverlapCoverage(pair) ==
  [similarity         |-> pair.similarity,
   sharedFingerprints |-> pair.overlap,
   longestFragment    |-> pair.longest,
   coverage1          |-> Rat(pair.overlap, Max(1, pair.leftTotal)),
   coverage2          |-> Rat(pair.overlap, Max(1, pair.rightTotal)),
   pair               |-> pair]

\* sharedFingerprints taken as the number of left positions that are shared
SyntacticResult_Covered(pair) ==
  [similarity         |-> pair.similarity,
   sharedFingerprints |-> pair.leftCovered,
   longestFragment    |-> pair.longest,
   coverage1          |-> Rat(pair.leftCovered, Max(1, pair.leftTotal)),
   coverage2          |-> Rat(pair.rightCovered, Max(1, pair.rightTotal)),
   pair               |-> pair]

\* the value performSyntacticAnalysis returns for a Pair
SyntacticResult(pair) ==
  [similarity         |-> pair.similarity,
   sharedFingerprints |-> pair.overlap,
   longestFragment    |-> pair.longest,
   coverage1          |-> Rat(pair.leftCovered, Max(1, pair.leftTotal)),
   coverage2          |-> Rat(pair.rightCovered, Max(1, pair.rightTotal)),
   pair               |-> pair]

\* a new FingerprintIndex for every call, the two files added, their Pair
\* the index built with a window one hash wider than windowSize
performSyntacticAnalysis_WiderWindow(tokenizedFile1, tokenizedFile2, K, W) ==
  SyntacticResult(getPair(tokenizedFile1, tokenizedFile2, K, W + 1))

performSyntacticAnalysis(tokenizedFile1, tokenizedFile2, K, W) ==
  SyntacticResult(getPair(tokenizedFile1, tokenizedFile2, K, W))

\* the rows of the table chosen on the fragment count alone
calculateAdaptiveThreshold_FragmentsOnly(syntactic, fragmentCount) ==
  IF fragmentCount > 5 THEN Rat(7, 10)
  ELSE IF fragmentCount > 3 THEN Rat(5, 10)
  ELSE IF fragmentCount > 1 THEN Rat(35, 100)
  ELSE Rat(3, 10)

\* the rows of the table tried from the lowest threshold up
calculateAdaptiveThreshold_LowestFirst(syntactic, fragmentCount) ==
  IF RLt(Rat(4, 10), syntactic) /\ fragmentCount > 1 THEN Rat(35, 100)
  ELSE IF RLt(Rat(6, 10), syntactic) /\ fragmentCount > 3 THEN Rat(5, 10)
  ELSE IF RLt(Rat(8, 10), syntactic) /\ fragmentCount > 5 THEN Rat(7, 10)
  ELSE Rat(3, 10)

calculateAdaptiveThreshold(syntactic, fragmentCount) ==
  IF RLt(Rat(8, 10), syntactic) /\ fragmentCount > 5 THEN Rat(7, 10)
  ELSE IF RLt(Rat(6, 10), syntactic) /\ fragmentCount > 3 THEN Rat(5, 10)
  ELSE IF RLt(Rat(4, 10), syntactic) /\ fragmentCount > 1 THEN Rat(35, 100)
  ELSE Rat(3, 10)

\* two points for a syntactic similarity of 0.7 or more
determineConfidence_Inclusive(overallSimilarity, syntactic, mapping) ==
  LET s1 == IF RLt(Rat(8, 10), overallSimilarity) THEN 4
            ELSE IF RLt(Rat(6, 10), overallSimilarity) THEN 3
            ELSE IF RLt(Rat(4, 10), overallSimilarity) THEN 2
            ELSE 1
      s2 == IF RLeq(Rat(7, 10), syntactic.similarity) THEN 2 ELSE 0
      s3 == IF syntactic.longestFragment > 10 THEN 1 ELSE 0
      s4 == IF RLt(Rat(5, 10), syntactic.coverage1)
               \/ RLt(Rat(5, 10), syntactic.coverage2) THEN 1 ELSE 0
      s5 == IF mapping.significantMappedFragments > 5 THEN 2 ELSE 0
      s6 == IF mapping.totalSharedLines > 20 THEN 1 ELSE 0
      confidenceScore == s1 + s2 + s3 + s4 + s5 + s6
  IN IF confidenceScore >= 8 THEN "VERY_HIGH"
     ELSE IF confidenceScore >= 6 THEN "HIGH"
     ELSE IF confidenceScore >= 4 THEN "MEDIUM"
     ELSE "LOW"

determineConfidence(overallSimilarity, syntactic, mapping) ==
  LET s1 == IF RLt(Rat(8, 10), overallSimilarity) THEN 4
            ELSE IF RLt(Rat(6, 10), overallSimilarity) THEN 3
            ELSE IF RLt(Rat(4, 10), overallSimilarity) THEN 2
            ELSE 1
      s2 == IF RLt(Rat(7, 10), syntactic.similarity) THEN 2 ELSE 0
      s3 == IF syntactic.longestFragment > 10 THEN 1 ELSE 0
      s4 == IF RLt(Rat(5, 10), syntactic.coverage1)
               \/ RLt(Rat(5, 10), syntactic.coverage2) THEN 1 ELSE 0
      s5 == IF mapping.significantMappedFragments > 5 THEN 2 ELSE 0
      s6 == IF mapping.totalSharedLines > 20 THEN 1 ELSE 0
      confidenceScore == s1 + s2 + s3 + s4 + s5 + s6
  IN IF confidenceScore >= 8 THEN "VERY_HIGH"
     ELSE IF confidenceScore >= 6 THEN "HIGH"
     ELSE IF confidenceScore >= 4 THEN "MEDIUM"
     ELSE "LOW"

\* customThreshold || calculateAdaptiveThreshold(...): a threshold of 0 counts
\* as none
chooseThreshold_Falsy(customThreshold, syntactic, fragmentCount) ==
  IF customThreshold = Undefined \/ REq(customThreshold, Rat(0, 1))
  THEN calculateAdaptiveThreshold(syntactic, fragmentCount)
  ELSE customThreshold

\* customThreshold ?? calculateAdaptiveThreshold(...)
chooseThreshold(customThreshold, syntactic, fragmentCount) ==
  IF customThreshold = Undefined
  THEN calculateAdaptiveThreshold(syntactic, fragmentCount)
  ELSE customThreshold

\* overallSimilarity >= threshold
verdict(overallSimilarity, threshold) == RLeq(threshold, overallSimilarity)

\* step 3 of detectPlagiarism, on the result of step 2
analyseTokenized(syntacticResult, tokenizedFile1, tokenizedFile2, file1, file2, K) ==
  [threw     |-> FALSE,
   syntactic |-> syntacticResult,
   mapping   |-> mapFragments(syntacticResult.pair, tokenizedFile1, tokenizedFile2,
                              file1.content, file2.content, K)]

\* the tokenizer is there only once initialize() has run and the call does
\* not run it: the first call on a new detector throws
analyse_NoLazyInitialize(file1, file2, K, W) ==
  LET tokenizedFile1 == tokenizeFile(file1.content)
      tokenizedFile2 == tokenizeFile(file2.content)
  IN IF ~initialized \/ ~tokenizedFile1.ok \/ ~tokenizedFile2.ok
     THEN [threw |-> TRUE]
     ELSE analyseTokenized(performSyntacticAnalysis(tokenizedFile1, tokenizedFile2, K, W),
                           tokenizedFile1, tokenizedFile2, file1, file2, K)

\* steps 1 - 3 of detectPlagiarism: tokenize, analyse, map; a LexError of
\* the tokenizer is thrown through detectPlagiarism
analyse(file1, file2, K, W) ==
  LET tokenizedFile1 == tokenizeFile(file1.content)
      tokenizedFile2 == tokenizeFile(file2.content)
  IN IF ~tokenizedFile1.ok \/ ~tokenizedFile2.ok
     THEN [threw |-> TRUE]
     ELSE analyseTokenized(performSyntacticAnalysis(tokenizedFile1, tokenizedFile2, K, W),
                           tokenizedFile1, tokenizedFile2, file1, file2, K)

\* step 4 of detectPlagiarism and the PlagiarismResult it returns
plagiarismResult(a, file1, file2, customThreshold, weight, processingTime) ==
  LET overallSimilarity == RMul(a.syntactic.similarity, weight)
      threshold == chooseThreshold(customThreshold, a.syntactic.similarity,
                                   Len(a.mapping.mappedFragments))
  IN [syntacticSimilarity |-> a.syntactic.similarity,
      overallSimilarity   |-> overallSimilarity,
      sharedFragments     |-> a.syntactic.sharedFingerprints,
      longestFragment     |-> a.syntactic.longestFragment,
      coverage1           |-> a.syntactic.coverage1,
      coverage2           |-> a.syntactic.coverage2,
      mappedFragments     |-> a.mapping.mappedFragments,
      totalMappedFragments |-> a.mapping.totalMappedFragments,
      significantMappedFragments |-> a.mapping.significantMappedFragments,
      totalSharedLines    |-> a.mapping.totalSharedLines,
      totalSharedTokens   |-> a.mapping.totalSharedTokens,
      isPlagiarism        |-> verdict(overallSimilarity, threshold),
      confidence          |-> determineConfidence(overallSimilarity, a.syntactic, a.mapping),
      file1               |-> file1.name,
      file2               |-> file2.name,
      processingTime      |-> processingTime]

\* arguments of the constructor
KgramSizes == {1, 2}

WindowSizes == {0, 1, 2}

SyntacticWeights == {Rat(1, 2), Rat(1, 1)}

\* the optional customThreshold argument
Thresholds == {Undefined, Rat(0, 1), Rat(1, 4), Rat(1, 2)}

\* performance.now() - startTime, in milliseconds
ProcessingTimes == {1, 2}

NoRun == [done |-> FALSE]

NoBatch == [pc |-> "idle"]

NoScore == [done |-> FALSE]

\* no call in progress, no request, no dashboard, no desktop shell
NoCalls == [pc |-> "none"]

NoHttp == [pc |-> "none"]

NoDashboard == [pc |-> "none"]

NoShell == [pc |-> "none"]

\* the applications around the detector are not running
AppIdle ==
  /\ calls = NoCalls
  /\ http = NoHttp
  /\ dashboard = NoDashboard
  /\ shell = NoShell

Init ==
  /\ constructed = FALSE
  /\ kgramSize = 0
  /\ windowSize = 0
  /\ syntacticWeight = Rat(0, 1)
  /\ initialized = FALSE
  /\ fileA \in Texts
  /\ fileB \in Texts
  /\ run1 = NoRun
  /\ run2 = NoRun
  /\ batch = NoBatch
  /\ scored = NoScore
  /\ AppIdle

\* new PascalPlagiarismDetector(k, w, sw)
Construct(k, w, sw) ==
  /\ ~constructed
  /\ constructed' = TRUE
  /\ kgramSize' = k
  /\ windowSize' = w
  /\ syntacticWeight' = sw
  /\ initialized' = FALSE
  /\ UNCHANGED <<fileA, fileB, run1, run2, batch, scored, appVars>>

\* detector.initialize()
Initialize ==
  /\ constructed
  /\ initialized' = TRUE
  /\ UNCHANGED <<constructed, kgramSize, windowSize, syntacticWeight,
                 fileA, fileB, run1, run2, batch, scored, appVars>>

\* the record of a completed call of detectPlagiarism
RunRecord(file1, file2, customThreshold, a, t) ==
  [done            |-> TRUE,
   file1           |-> file1,
   file2           |-> file2,
   customThreshold |-> customThreshold,
   threw           |-> a.threw,
   result          |-> IF a.threw THEN [error |-> "LexError"]
                       ELSE plagiarismResult(a, file1, file2, customThreshold,
                                             syntacticWeight, t)]

\* detector.detectPlagiarism(file1, file2, customThreshold)
DetectPlagiarism(file1, file2) ==
  /\ constructed
  /\ ~run2.done
  /\ initialized' = TRUE
  /\ LET a == analyse(file1, file2, kgramSize, windowSize) IN
       \E customThreshold \in Thresholds, t \in ProcessingTimes :
         LET r == RunRecord(file1, file2, customThreshold, a, t) IN
           IF run1.done
           THEN run2' = r /\ UNCHANGED run1
           ELSE run1' = r /\ UNCHANGED run2
  /\ UNCHANGED <<constructed, kgramSize, windowSize, syntacticWeight,
                 fileA, fileB, batch, scored, appVars>>

InputA == [name |-> "a.pas", content |-> fileA]

InputB == [name |-> "b.pas", content |-> fileB]

\* detectPlagiarism(a, b): the first call on the detector
DetectFirst == ~run1.done /\ DetectPlagiarism(InputA, InputB)

\* detectPlagiarism(a, b) once more
DetectAgain == run1.done /\ DetectPlagiarism(InputA, InputB)

\* detectPlagiarism(b, a) after detectPlagiarism(a, b)
DetectSwapped == run1.done /\ DetectPlagiarism(InputB, InputA)

\* one detector, one call of detectPlagiarism
Next ==
  \/ \E k \in KgramSizes, w \in WindowSizes, sw \in SyntacticWeights : Construct(k, w, sw)
  \/ Initialize
  \/ DetectFirst

Spec == Init /\ [][Next]_vars

\* one detector with valid parameters, two calls of detectPlagiarism on the
\* same two files
InitRepeat ==
  /\ constructed = TRUE
  /\ kgramSize = 2
  /\ windowSize \in {1, 2}
  /\ syntacticWeight \in SyntacticWeights
  /\ initialized = FALSE
  /\ fileA \in Texts
  /\ fileB \in Texts
  /\ run1 = NoRun
  /\ run2 = NoRun
  /\ batch = NoBatch
  /\ scored = NoScore
  /\ AppIdle

NextRepeat ==
  \/ DetectFirst
  \/ DetectAgain
  \/ DetectSwapped

SpecRepeat == InitRepeat /\ [][NextRepeat]_vars

\* ------------------------------------------------------------------------
\* Step 4 of detectPlagiarism over drawn analysis results
\* ------------------------------------------------------------------------

\* the largest number of significant fragments drawn
MaxFragments == 7

\* pair similarities in steps of 0.05
Similarities == {Rat(n, 20) : n \in 0..20}

\* the results of steps 2 and 3 for a pair of similarity s with F
\* significant fragments; step 4 reads the similarity, the coverages, the
\* longest fragment and the totals of the mapping
DrawnAnalysis(s, F) ==
  [threw |-> FALSE,
   syntactic |-> [similarity         |-> s,
                  sharedFingerprints |-> F,
                  longestFragment    |-> 2 * F,
                  coverage1          |-> s,
                  coverage2          |-> s],
   mapping |-> [mappedFragments            |-> [n \in 1..F |-> [fragmentId |-> n]],
                totalMappedFragments       |-> F,
                significantMappedFragments |-> F,
                totalSharedLines           |-> F,
                totalSharedTokens          |-> 2 * F]]

\* detectPlagiarism from step 4 on, for a pair whose analysis gave
\* similarity s and F significant fragments
DecideVerdict(s, F) ==
  /\ constructed
  /\ ~run1.done
  /\ \E customThreshold \in Thresholds, t \in ProcessingTimes :
       run1' = RunRecord([name |-> "a.pas"], [name |-> "b.pas"], customThreshold,
                         DrawnAnalysis(s, F), t)
  /\ UNCHANGED <<constructed, kgramSize, windowSize, syntacticWeight, initialized,
                 fileA, fileB, run2, batch, scored, appVars>>

InitScore ==
  /\ constructed = TRUE
  /\ kgramSize = 8
  /\ windowSize = 15
  /\ syntacticWeight \in SyntacticWeights
  /\ initialized = TRUE
  /\ fileA = << >>
  /\ fileB = << >>
  /\ run1 = NoRun
  /\ run2 = NoRun
  /\ batch = NoBatch
  /\ scored = NoScore
  /\ AppIdle

NextScore == \E s \in Similarities, F \in 0..MaxFragments : DecideVerdict(s, F)

SpecScore == InitScore /\ [][NextScore]_vars

\* ------------------------------------------------------------------------
\* detectBatchPlagiarism
\* ------------------------------------------------------------------------

RECURSIVE Gcd(_, _)
Gcd(a, b) == IF b = 0 THEN a ELSE Gcd(b, a % b)

Lcm(a, b) == (a * b) \div Gcd(a, b)

RECURSIVE LcmOfDenominators(_)
LcmOfDenominators(rats) ==
  IF rats = << >> THEN 1
  ELSE LET r == Head(rats)
       IN Lcm(r[2] \div Gcd(r[1], r[2]), LcmOfDenominators(Tail(rats)))

\* mean + 1.5 * stdDev <= p / q, for similarities a[i] / D: with S the sum
\* of the a[i] and V = n * (sum of the squares) - S * S, the mean is
\* S / (n * D) and the standard deviation is sqrt(V) / (n * D)
MeanPlusDevLeq(S, V, nD, p, q) ==
  LET rhs == 2 * (p * nD - q * S)
  IN rhs >= 0 /\ 9 * q * q * V <= rhs * rhs

MeanPlusDevGeq(S, V, nD, p, q) ==
  LET rhs == 2 * (p * nD - q * S)
  IN rhs <= 0 \/ 9 * q * q * V >= rhs * rhs

\* the threshold of a batch without Math.min(threshold, 0.8)
calculateBatchThreshold_NoCap(results) ==
  IF results = << >> THEN Rat(3, 10)
  ELSE LET n == Len(results)
           sims == [k \in 1..n |-> results[k].overallSimilarity]
           D == LcmOfDenominators(sims)
           a == [k \in 1..n |-> sims[k][1] * (D \div sims[k][2])]
           S == SumSeq(a)
           V == n * SumSeq([k \in 1..n |-> a[k] * a[k]]) - S * S
       IN IF MeanPlusDevLeq(S, V, n * D, 1, 4) THEN Rat(25, 100)
          ELSE IF V = 0 THEN Rat(S, n * D)
          ELSE <<S, V, n * D>>

\* the threshold of a batch: a rational, or <<S, V, n * D>> for the value
\* (S + 1.5 * sqrt(V)) / (n * D) strictly between 0.25 and 0.8
calculateBatchThreshold(results) ==
  IF results = << >> THEN Rat(3, 10)
  ELSE LET n == Len(results)
           sims == [k \in 1..n |-> results[k].overallSimilarity]
           D == LcmOfDenominators(sims)
           a == [k \in 1..n |-> sims[k][1] * (D \div sims[k][2])]
           S == SumSeq(a)
           V == n * SumSeq([k \in 1..n |-> a[k] * a[k]]) - S * S
       IN IF MeanPlusDevLeq(S, V, n * D, 1, 4) THEN Rat(25, 100)
          ELSE IF MeanPlusDevGeq(S, V, n * D, 4, 5) THEN Rat(8, 10)
          ELSE IF V = 0 THEN Rat(S, n * D)
          ELSE <<S, V, n * D>>

\* results.sort((a, b) => b.overallSimilarity - a.overallSimilarity): the
\* sort is stable
RECURSIVE InsertDesc(_, _)
InsertDesc(sorted, r) ==
  IF sorted = << >> THEN <<r>>
  ELSE IF RLt(Head(sorted).overallSimilarity, r.overallSimilarity)
       THEN <<r>> \o sorted
       ELSE <<Head(sorted)>> \o InsertDesc(Tail(sorted), r)

\* the results in the order of the loop: the sort left out
SortDesc_LoopOrder(results) == results

RECURSIVE SortDesc(_)
SortDesc(results) ==
  IF results = << >> THEN << >>
  ELSE InsertDesc(SortDesc(SubSeq(results, 1, Len(results) - 1)),
                  results[Len(results)])

\* the source texts of the files of a batch: an empty file, three files
\* that share k-grams, a malformed file
BatchTexts ==
  {<< >>, <<"x", ";", "x">>, <<"x", ";", "x", ";">>, <<"x", ";", ";">>, <<"'">>}

RECURSIVE SeqsOfLen(_, _)
SeqsOfLen(S, n) ==
  IF n = 0 THEN {<< >>}
  ELSE {Append(q, x) : q \in SeqsOfLen(S, n - 1), x \in S}

\* the FileInput array of a batch: the file at index k is named k
BatchInputs ==
  {[k \in 1..Len(q) |-> [name |-> ToString(k), content |-> q[k]]] :
     q \in UNION {SeqsOfLen(BatchTexts, n) : n \in 0..MaxFiles}}

\* the loop variables (i, j) are the indices of the pair compared next;
\* the loops are over when j has left the array
LoopOver(b) == b.j >= Len(b.files)

\* the inner loop started at i instead of i + 1
AdvanceLoop_FromSame(i, j, n) == IF j + 1 < n THEN <<i, j + 1>> ELSE <<i + 1, i + 1>>

AdvanceLoop(i, j, n) == IF j + 1 < n THEN <<i, j + 1>> ELSE <<i + 1, i + 2>>

\* detector.detectBatchPlagiarism(files, customThreshold), up to the loops
BatchStart(files, customThreshold) ==
  /\ constructed
  /\ batch.pc = "idle"
  /\ initialized' = TRUE
  /\ batch' = [pc               |-> "loop",
               files            |-> files,
               customThreshold  |-> customThreshold,
               i                |-> 0,
               j                |-> 1,
               results          |-> << >>,
               totalComparisons |-> 0,
               suspiciousPairs  |-> 0]
  /\ UNCHANGED <<constructed, kgramSize, windowSize, syntacticWeight,
                 fileA, fileB, run1, run2, scored, appVars>>

\* the pairs of a batch evaluated without the threshold of the batch
BatchCompare_NoThreshold ==
  /\ batch.pc = "loop"
  /\ ~LoopOver(batch)
  /\ LET file1 == batch.files[batch.i + 1]
         file2 == batch.files[batch.j + 1]
         a == analyse(file1, file2, kgramSize, windowSize)
         next == AdvanceLoop(batch.i, batch.j, Len(batch.files))
     IN IF a.threw
        THEN batch' = [pc |-> "failed", files |-> batch.files,
                       customThreshold |-> batch.customThreshold,
                       totalComparisons |-> batch.totalComparisons + 1]
        ELSE \E t \in ProcessingTimes :
               LET result == plagiarismResult(a, file1, file2, Undefined,
                                              syntacticWeight, t)
               IN batch' = [batch EXCEPT
                    !.totalComparisons = @ + 1,
                    !.results = Append(@, result),
                    !.suspiciousPairs = IF result.isPlagiarism THEN @ + 1 ELSE @,
                    !.i = next[1],
                    !.j = next[2]]
  /\ UNCHANGED <<constructed, kgramSize, windowSize, syntacticWeight, initialized,
                 fileA, fileB, run1, run2, scored, appVars>>

\* one iteration of the inner loop: await this.detectPlagiarism(files[i],
\* files[j], customThreshold); an exception thrown by it rejects the batch
BatchCompare ==
  /\ batch.pc = "loop"
  /\ ~LoopOver(batch)
  /\ LET file1 == batch.files[batch.i + 1]
         file2 == batch.files[batch.j + 1]
         a == analyse(file1, file2, kgramSize, windowSize)
         next == AdvanceLoop(batch.i, batch.j, Len(batch.files))
     IN IF a.threw
        THEN batch' = [pc |-> "failed", files |-> batch.files,
                       customThreshold |-> batch.customThreshold,
                       totalComparisons |-> batch.totalComparisons + 1]
        ELSE \E t \in ProcessingTimes :
               LET result == plagiarismResult(a, file1, file2, batch.customThreshold,
                                              syntacticWeight, t)
               IN batch' = [batch EXCEPT
                    !.totalComparisons = @ + 1,
                    !.results = Append(@, result),
                    !.suspiciousPairs = IF result.isPlagiarism THEN @ + 1 ELSE @,
                    !.i = next[1],
                    !.j = next[2]]
  /\ UNCHANGED <<constructed, kgramSize, windowSize, syntacticWeight, initialized,
                 fileA, fileB, run1, run2, scored, appVars>>

\* after the loops: the BatchResult
BatchFinish ==
  /\ batch.pc = "loop"
  /\ LoopOver(batch)
  /\ \E t \in ProcessingTimes :
       batch' = [pc              |-> "done",
                 files           |-> batch.files,
                 customThreshold |-> batch.customThreshold,
                 unsorted        |-> batch.results,
                 out |->
                   [results          |-> SortDesc(batch.results),
                    threshold        |-> IF batch.customThreshold = Undefined
                                         THEN calculateBatchThreshold(batch.results)
                                         ELSE batch.customThreshold,
                    totalComparisons |-> batch.totalComparisons,
                    suspiciousPairs  |-> batch.suspiciousPairs,
                    processingTime   |-> t]]
  /\ UNCHANGED <<constructed, kgramSize, windowSize, syntacticWeight, initialized,
                 fileA, fileB, run1, run2, scored, appVars>>

\* one detector with valid parameters, one call of detectBatchPlagiarism
InitBatch ==
  /\ constructed = TRUE
  /\ kgramSize = 2
  /\ windowSize = 1
  /\ syntacticWeight \in SyntacticWeights
  /\ initialized = FALSE
  /\ fileA = << >>
  /\ fileB = << >>
  /\ run1 = NoRun
  /\ run2 = NoRun
  /\ batch = NoBatch
  /\ scored = NoScore
  /\ AppIdle

NextBatch ==
  \/ /\ batch.pc = "idle"
     /\ \E files \in BatchInputs, customThreshold \in Thresholds :
          BatchStart(files, customThreshold)
  \/ BatchCompare
  \/ BatchFinish

SpecBatch == InitBatch /\ [][NextBatch]_vars

\* ------------------------------------------------------------------------
\* Single steps of the detector on drawn inputs: confidence and type of a
\* fragment, the significance filter, the line lookup, the confidence label
\* ------------------------------------------------------------------------

\* the most shared tokens of a drawn fragment
MaxTokens == 24

\* the most shared k-grams of a drawn fragment
MaxPairs == 4

\* a Fragment of P shared k-grams whose left k-gram range has length R
DrawnFragment(P, R) ==
  [pairs       |-> [n \in 1..P |-> [left |-> Occurrence(n - 1, 2),
                                    right |-> Occurrence(n - 1, 2)]],
   leftkgrams  |-> [from |-> 0, to |-> R],
   rightkgrams |-> [from |-> 0, to |-> R]]

\* createMappedFragment, confidence and type, for a fragment of P shared
\* k-grams over a left range of length R with T shared tokens
ScoreFragment(T, P, R) ==
  /\ ~scored.done
  /\ LET fragment == DrawnFragment(P, R)
         confidence == calculateFragmentConfidence(fragment, T)
     IN scored' = [done         |-> TRUE,
                   step         |-> "fragment",
                   tokenCount   |-> T,
                   pairCount    |-> P,
                   kgramRange   |-> R,
                   confidence   |-> confidence,
                   fragmentType |-> determineFragmentType(confidence),
                   localSimilarity |-> localSimilarityOf(P, T, kgramSize)]
  /\ UNCHANGED <<constructed, kgramSize, windowSize, syntacticWeight, initialized,
                 fileA, fileB, run1, run2, batch, appVars>>

\* the most fragments built from one pair
MaxBuilt == 3

\* (shared tokens, shared k-grams, left range) of the fragments drawn for the
\* filter: confidences 0.02, 0.28, 0.3, 0.62, 0.64, 0.74, 0.76 and token
\* counts below, at and above kgramSize
FilterDraws ==
  {<<1, 0, 1>>, <<14, 0, 1>>, <<15, 0, 1>>, <<1, 3, 1>>, <<2, 3, 1>>,
   <<7, 3, 1>>, <<8, 3, 1>>}

\* the MappedFragment of id fragmentId made of a drawn fragment
DrawnMapped(fragmentId, d) ==
  LET confidence == calculateFragmentConfidence(DrawnFragment(d[2], d[3]), d[1])
  IN [fragmentId         |-> fragmentId,
      confidence         |-> confidence,
      fragmentType       |-> determineFragmentType(confidence),
      file1Lines         |-> [start |-> 1, end |-> 1, count |-> 1],
      file2Lines         |-> [start |-> 1, end |-> 1, count |-> 1],
      sharedTokens       |-> [i \in 1..d[1] |-> "x"],
      sharedFingerprints |-> d[2]]

\* mapFragments from the mapped fragments on: the significance filter, the
\* totals and the value returned
FilterFragments(draws) ==
  /\ ~scored.done
  /\ LET built == [n \in 1..Len(draws) |-> DrawnMapped(n, draws[n])]
     IN scored' = [done   |-> TRUE,
                   step   |-> "filter",
                   built  |-> built,
                   result |-> FilterSignificant(built, kgramSize)]
  /\ UNCHANGED <<constructed, kgramSize, windowSize, syntacticWeight, initialized,
                 fileA, fileB, run1, run2, batch, appVars>>

\* the highest k-gram position of a drawn fragment's first shared k-gram
MaxPos == 3

\* files of one, two and three lines: tokens on rows 1; 1, 2, 2; 1, 1, 2, 3
MapTexts ==
  {<<"x">>, <<"x", "\n", ";", "x">>, <<"x", ";", "\n", "x", "\n", ";">>}

\* createMappedFragment on a fragment of P consecutive shared k-grams from
\* left position l and right position r, which may lie past the end of the
\* files, and the filter of mapFragments on it
MapFragment(file1Code, file2Code, l, r, P) ==
  /\ ~scored.done
  /\ LET fragment == Fragment([n \in 1..P |->
                                 [left  |-> Occurrence(l + n - 1, kgramSize),
                                  right |-> Occurrence(r + n - 1, kgramSize)]])
         built == <<createMappedFragment(fragment, 1, tokenizeFile(file1Code),
                                         tokenizeFile(file2Code), file1Code,
                                         file2Code, kgramSize)>>
     IN scored' = [done      |-> TRUE,
                   step      |-> "map",
                   file1Code |-> file1Code,
                   file2Code |-> file2Code,
                   fragment  |-> fragment,
                   built     |-> built,
                   result    |-> FilterSignificant(built, kgramSize)]
  /\ UNCHANGED <<constructed, kgramSize, windowSize, syntacticWeight, initialized,
                 fileA, fileB, run1, run2, batch, appVars>>

\* pair similarities around the boundaries of the confidence score
LabelSimilarities ==
  {Rat(2, 5), Rat(9, 20), Rat(3, 5), Rat(13, 20), Rat(7, 10), Rat(3, 4),
   Rat(4, 5), Rat(17, 20), Rat(1, 1)}

\* coverages, fragment lengths, fragment counts and line totals on both
\* sides of the boundaries of the confidence score
LabelCoverages == {Rat(1, 2), Rat(11, 20)}

LabelLongest == {10, 11}

LabelSignificant == {5, 6}

LabelSharedLines == {20, 21}

\* detectPlagiarism l.153 and l.177: the overall similarity and the
\* confidence label of an analysis with the drawn figures
LabelConfidence(similarity, longest, coverage1, coverage2, significant, sharedLines) ==
  /\ ~scored.done
  /\ LET overallSimilarity == RMul(similarity, syntacticWeight)
         syntactic == [similarity      |-> similarity,
                       longestFragment |-> longest,
                       coverage1       |-> coverage1,
                       coverage2       |-> coverage2]
         mapping == [significantMappedFragments |-> significant,
                     totalSharedLines           |-> sharedLines]
     IN scored' = [done              |-> TRUE,
                   step              |-> "label",
                   overallSimilarity |-> overallSimilarity,
                   syntactic         |-> syntactic,
                   mapping           |-> mapping,
                   confidence        |-> determineConfidence(overallSimilarity,
                                                             syntactic, mapping)]
  /\ UNCHANGED <<constructed, kgramSize, windowSize, syntacticWeight, initialized,
                 fileA, fileB, run1, run2, batch, appVars>>

InitFragment ==
  /\ constructed = TRUE
  /\ kgramSize \in {2, 8}
  /\ windowSize = 15
  /\ syntacticWeight \in SyntacticWeights
  /\ initialized = TRUE
  /\ fileA = << >>
  /\ fileB = << >>
  /\ run1 = NoRun
  /\ run2 = NoRun
  /\ batch = NoBatch
  /\ scored = NoScore
  /\ AppIdle

NextFragment ==
  \/ \E T \in 0..MaxTokens, P \in 0..MaxPairs, R \in 0..(MaxPairs + 1) : ScoreFragment(T, P, R)
  \/ \E n \in 0..MaxBuilt : \E draws \in [1..n -> FilterDraws] : FilterFragments(draws)
  \/ \E similarity \in LabelSimilarities, longest \in LabelLongest,
        coverage1 \in LabelCoverages, coverage2 \in LabelCoverages,
        significant \in LabelSignificant, sharedLines \in LabelSharedLines :
       LabelConfidence(similarity, longest, coverage1, coverage2, significant, sharedLines)
  \/ \E file1Code \in MapTexts, file2Code \in MapTexts, l \in 0..MaxPos, r \in 0..MaxPos,
        P \in 1..2 :
       MapFragment(file1Code, file2Code, l, r, P)

SpecFragment == InitFragment /\ [][NextFragment]_vars

\* ------------------------------------------------------------------------
\* A batch, then one pair of its files on the same detector
\* ------------------------------------------------------------------------

\* detectPlagiarism(files[i], files[j], customThreshold) after the batch has
\* returned or was rejected
DetectPairOfBatch(i, j) ==
  /\ batch.pc \in {"done", "failed"}
  /\ ~run1.done
  /\ DetectPlagiarism(batch.files[i + 1], batch.files[j + 1])

NextBatchThenPair ==
  \/ /\ batch.pc = "idle"
     /\ \E files \in BatchInputs, customThreshold \in Thresholds :
          BatchStart(files, customThreshold)
  \/ BatchCompare
  \/ BatchFinish
  \/ /\ batch.pc \in {"done", "failed"}
     /\ \E i \in 0..(MaxFiles - 1), j \in 0..(MaxFiles - 1) :
          i < j /\ j < Len(batch.files) /\ DetectPairOfBatch(i, j)

SpecBatchThenPair == InitBatch /\ [][NextBatchThenPair]_vars

\* ------------------------------------------------------------------------
\* Winnowing of one file (FingerprintIndex.addFiles)
\* ------------------------------------------------------------------------

\* the longest token stream winnowed
MaxStream == 10

\* the hash values assigned to the k-grams
HashValues == {0, 1}

\* the window sizes of the winnowing detectors
WinnowWindows == {1, 2, 3}

\* index.addFiles on a file of N tokens whose k-grams have the given hashes
WinnowFile(N, hashes) ==
  /\ ~scored.done
  /\ scored' = [done       |-> TRUE,
                step       |-> "winnow",
                tokenCount |-> N,
                hashes     |-> hashes,
                selected   |-> Winnow(hashes, windowSize)]
  /\ UNCHANGED <<constructed, kgramSize, windowSize, syntacticWeight, initialized,
                 fileA, fileB, run1, run2, batch, appVars>>

InitWinnow ==
  /\ constructed = TRUE
  /\ kgramSize \in {2, 3}
  /\ windowSize \in WinnowWindows
  /\ syntacticWeight = Rat(1, 1)
  /\ initialized = TRUE
  /\ fileA = << >>
  /\ fileB = << >>
  /\ run1 = NoRun
  /\ run2 = NoRun
  /\ batch = NoBatch
  /\ scored = NoScore
  /\ AppIdle

NextWinnow ==
  \E N \in 0..MaxStream :
    \E hashes \in [1..Max(0, N - kgramSize + 1) -> HashValues] : WinnowFile(N, hashes)

SpecWinnow == InitWinnow /\ [][NextWinnow]_vars

\* ------------------------------------------------------------------------
\* Concurrent calls on one detector: a call runs without interruption up to
\* its next await, where any other call may run
\* ------------------------------------------------------------------------

\* the number of calls made on the detector
MaxCalls == 3

\* the most pairs of a batch call
MaxPairsOfCall == 2

CallIds == 1..MaxCalls

\* initialize() without `if (this.initialized) return`
initialize_NoGuard(st) ==
  [initialized |-> TRUE, bodyRuns |-> st.bodyRuns + 1]

\* initialize(): st holds this.initialized and the number of times the body
\* (new tokenizer, initialized = true) has run; there is no await in it
initialize(st) ==
  IF st.initialized THEN st
  ELSE [initialized |-> TRUE, bodyRuns |-> st.bodyRuns + 1]

\* `if (!this.initialized) await this.initialize()` up to the await: whether
\* the call yields, and the state it leaves
LazyInitialize(st) ==
  IF ~st.initialized
  THEN [yields |-> TRUE, st |-> initialize(st)]
  ELSE [yields |-> FALSE, st |-> st]

\* this.tokenizer.tokenizeFile(...) of a call: remembers whether a file was
\* ever tokenized while initialized was false
TokenizeIn(cs, init) == [cs EXCEPT !.tokenizedEarly = @ \/ ~init]

\* a call of initialize()
CallInitialize(c) ==
  /\ calls.pc[c] = "idle"
  /\ LET st == initialize([initialized |-> initialized, bodyRuns |-> calls.bodyRuns])
     IN /\ initialized' = st.initialized
        /\ calls' = [calls EXCEPT !.pc[c] = "done", !.kind[c] = "initialize",
                                  !.bodyRuns = st.bodyRuns]
  /\ UNCHANGED <<constructed, kgramSize, windowSize, syntacticWeight,
                 fileA, fileB, run1, run2, batch, scored, http, dashboard, shell>>

\* detectPlagiarism from its start to its first await, or to its end if it
\* does not await
CallDetect(c) ==
  /\ calls.pc[c] = "idle"
  /\ LET lazy == LazyInitialize([initialized |-> initialized, bodyRuns |-> calls.bodyRuns])
         started == [calls EXCEPT !.kind[c] = "detectPlagiarism",
                                  !.bodyRuns = lazy.st.bodyRuns]
     IN /\ initialized' = lazy.st.initialized
        /\ calls' = IF lazy.yields
                    THEN [started EXCEPT !.pc[c] = "awaitInitialize"]
                    ELSE [TokenizeIn(started, lazy.st.initialized) EXCEPT !.pc[c] = "done"]
  /\ UNCHANGED <<constructed, kgramSize, windowSize, syntacticWeight,
                 fileA, fileB, run1, run2, batch, scored, http, dashboard, shell>>

\* detectPlagiarism after `await this.initialize()`: tokenization and the
\* rest of the call, which has no other await
ResumeDetect(c) ==
  /\ calls.pc[c] = "awaitInitialize"
  /\ calls.kind[c] = "detectPlagiarism"
  /\ calls' = [TokenizeIn(calls, initialized) EXCEPT !.pc[c] = "done"]
  /\ UNCHANGED <<constructed, kgramSize, windowSize, syntacticWeight, initialized,
                 fileA, fileB, run1, run2, batch, scored, http, dashboard, shell>>

\* the loops of detectBatchPlagiarism up to the next await: the batch
\* returns when no pair is left; otherwise it calls detectPlagiarism, which
\* runs to its own first await or to its end, and awaits it
BatchStep(cs, c, st) ==
  IF cs.pairsLeft[c] = 0 THEN [st |-> st, cs |-> [cs EXCEPT !.pc[c] = "done"]]
  ELSE LET lazy == LazyInitialize(st)
       IN [st |-> lazy.st,
           cs |-> IF lazy.yields
                  THEN [cs EXCEPT !.pc[c] = "awaitNestedInitialize",
                                  !.bodyRuns = lazy.st.bodyRuns]
                  ELSE [TokenizeIn(cs, lazy.st.initialized) EXCEPT
                          !.pc[c] = "awaitPair", !.pairsLeft[c] = @ - 1]]

\* detectBatchPlagiarism on files that make n pairs, to its first await
CallBatch(c, n) ==
  /\ calls.pc[c] = "idle"
  /\ LET lazy == LazyInitialize([initialized |-> initialized, bodyRuns |-> calls.bodyRuns])
         started == [calls EXCEPT !.kind[c] = "detectBatchPlagiarism",
                                  !.pairsLeft[c] = n,
                                  !.bodyRuns = lazy.st.bodyRuns]
         step == BatchStep(started, c, lazy.st)
     IN IF lazy.yields
        THEN /\ initialized' = lazy.st.initialized
             /\ calls' = [started EXCEPT !.pc[c] = "awaitInitialize"]
        ELSE /\ initialized' = step.st.initialized
             /\ calls' = step.cs
  /\ UNCHANGED <<constructed, kgramSize, windowSize, syntacticWeight,
                 fileA, fileB, run1, run2, batch, scored, http, dashboard, shell>>

\* detectBatchPlagiarism after an await
ResumeBatch(c) ==
  /\ calls.kind[c] = "detectBatchPlagiarism"
  /\ \/ /\ calls.pc[c] \in {"awaitInitialize", "awaitPair"}
        /\ LET step == BatchStep(calls, c, [initialized |-> initialized,
                                            bodyRuns |-> calls.bodyRuns])
           IN /\ initialized' = step.st.initialized
              /\ calls' = step.cs
     \/ /\ calls.pc[c] = "awaitNestedInitialize"
        /\ initialized' = initialized
        /\ calls' = [TokenizeIn(calls, initialized) EXCEPT
                       !.pc[c] = "awaitPair", !.pairsLeft[c] = @ - 1]
  /\ UNCHANGED <<constructed, kgramSize, windowSize, syntacticWeight,
                 fileA, fileB, run1, run2, batch, scored, http, dashboard, shell>>

\* a detector just constructed, no call made yet
InitCalls ==
  /\ constructed = TRUE
  /\ kgramSize = 8
  /\ windowSize = 15
  /\ syntacticWeight = Rat(1, 1)
  /\ initialized = FALSE
  /\ fileA = << >>
  /\ fileB = << >>
  /\ run1 = NoRun
  /\ run2 = NoRun
  /\ batch = NoBatch
  /\ scored = NoScore
  /\ calls = [pc             |-> [c \in CallIds |-> "idle"],
              kind           |-> [c \in CallIds |-> "none"],
              pairsLeft      |-> [c \in CallIds |-> 0],
              bodyRuns       |-> 0,
              tokenizedEarly |-> FALSE]
  /\ http = NoHttp
  /\ dashboard = NoDashboard
  /\ shell = NoShell

NextCalls ==
  \E c \in CallIds :
    \/ CallInitialize(c)
    \/ CallDetect(c)
    \/ ResumeDetect(c)
    \/ \E n \in 0..MaxPairsOfCall : CallBatch(c, n)
    \/ ResumeBatch(c)

SpecCalls == InitCalls /\ [][NextCalls]_vars

\* ------------------------------------------------------------------------
\* The HTTP facade: POST /api/detect and POST /api/detect-batch
\* ------------------------------------------------------------------------

\* the most entries of the files array of a request
MaxEntries == 3

\* contents of a file of a request body: empty, lexable, not lexable
HttpTexts == {<< >>, <<"x", ";", "x">>, <<"'">>}

\* a JSON value in the place of a file: absent (undefined), null, or an
\* object whose name and content may be absent or empty
JsonFiles ==
  {[kind |-> k, hasName |-> FALSE, name |-> "", hasContent |-> FALSE, content |-> << >>] :
     k \in {"undefined", "null"}}
  \cup {f \in [kind : {"object"}, hasName : BOOLEAN, name : {"", "a.pas"},
                 hasContent : BOOLEAN, content : HttpTexts] :
          /\ ~f.hasName => f.name = ""
          /\ ~f.hasContent => f.content = << >>}

\* the entries a JSON array can hold: there is no undefined in JSON
JsonEntries == {f \in JsonFiles : f.kind # "undefined"}

\* req.body of POST /api/detect
DetectBodies == [file1 : JsonFiles, file2 : JsonFiles]

\* req.body.files of POST /api/detect-batch: absent, not an array, or an
\* array of entries
BatchBodies ==
  {[kind |-> k, items |-> << >>] : k \in {"undefined", "object"}}
  \cup {[kind |-> "array", items |-> q] :
          q \in UNION {SeqsOfLen(JsonEntries, n) : n \in 0..MaxEntries}}

\* !file for a JSON value
NotValue(f) == f.kind \in {"undefined", "null"}

\* !file.name || !file.content for an object
LacksNameOrContent(f) ==
  \/ ~f.hasName \/ f.name = ""
  \/ ~f.hasContent \/ f.content = << >>

\* the FileInput the detector receives
AsFileInput(f) == [name |-> f.name, content |-> f.content]

\* the validation of /api/detect: the status it answers with, or 0 when the
\* detector is to be called
ValidateDetect(body) ==
  IF NotValue(body.file1) \/ NotValue(body.file2) THEN 400
  ELSE IF LacksNameOrContent(body.file1) \/ LacksNameOrContent(body.file2) THEN 400
  ELSE 0

\* the loop `for (const file of files)` from entry k on: reading file.name
\* of a null entry throws a TypeError, which the catch block answers with 500
RECURSIVE ValidateEntries(_, _)
ValidateEntries(items, k) ==
  IF k > Len(items) THEN 0
  ELSE IF items[k].kind = "null" THEN 500
  ELSE IF LacksNameOrContent(items[k]) THEN 400
  ELSE ValidateEntries(items, k + 1)

\* the validation of /api/detect-batch
ValidateBatch(files) ==
  IF files.kind # "array" THEN 400
  ELSE IF Len(files.items) < 2 THEN 400
  ELSE ValidateEntries(files.items, 1)

\* whether detector.detectPlagiarism / detectBatchPlagiarism rejects
DetectorRejects(inputs) ==
  \E i \in 1..Len(inputs), j \in 1..Len(inputs) :
    i < j /\ analyse(inputs[i], inputs[j], kgramSize, windowSize).threw

\* a request that was answered by the validation, or awaits the detector
Handled(route, body, inputs, status) ==
  [pc            |-> IF status = 0 THEN "awaitDetector" ELSE "responded",
   route         |-> route,
   body          |-> body,
   inputs        |-> inputs,
   detectorCalls |-> IF status = 0 THEN 1 ELSE 0,
   responses     |-> IF status = 0 THEN << >> ELSE <<status>>]

\* app.post('/api/detect') up to its response or to its await
PostDetect(body) ==
  /\ http.pc = "listening"
  /\ LET status == ValidateDetect(body)
     IN http' = Handled("/api/detect", body,
                        IF status = 0
                        THEN <<AsFileInput(body.file1), AsFileInput(body.file2)>>
                        ELSE << >>,
                        status)
  /\ UNCHANGED <<detectorVars, calls, dashboard, shell>>

\* app.post('/api/detect-batch') up to its response or to its await
PostDetectBatch(files) ==
  /\ http.pc = "listening"
  /\ LET status == ValidateBatch(files)
     IN http' = Handled("/api/detect-batch", files,
                        IF status = 0
                        THEN [k \in 1..Len(files.items) |-> AsFileInput(files.items[k])]
                        ELSE << >>,
                        status)
  /\ UNCHANGED <<detectorVars, calls, dashboard, shell>>

\* after the await: res.json({success: true, result}), or the catch block
\* with res.status(500)
DetectorSettles ==
  /\ http.pc = "awaitDetector"
  /\ http' = [http EXCEPT
       !.pc = "responded",
       !.responses = Append(@, IF DetectorRejects(http.inputs) THEN 500 ELSE 200)]
  /\ UNCHANGED <<detectorVars, calls, dashboard, shell>>

\* the server after startServer: detector constructed with its defaults and
\* initialized, listening
InitHttp ==
  /\ constructed = TRUE
  /\ kgramSize = 8
  /\ windowSize = 15
  /\ syntacticWeight = Rat(1, 1)
  /\ initialized = TRUE
  /\ fileA = << >>
  /\ fileB = << >>
  /\ run1 = NoRun
  /\ run2 = NoRun
  /\ batch = NoBatch
  /\ scored = NoScore
  /\ calls = NoCalls
  /\ http = [pc |-> "listening"]
  /\ dashboard = NoDashboard
  /\ shell = NoShell

NextHttp ==
  \/ \E body \in DetectBodies : PostDetect(body)
  \/ \E files \in BatchBodies : PostDetectBatch(files)
  \/ DetectorSettles

SpecHttp == InitHttp /\ [][NextHttp]_vars

\* ------------------------------------------------------------------------
\* The analysis dashboard: the file list of the parent and the handlers of
\* AnalysisDashboard that hand it a new list
\* ------------------------------------------------------------------------

\* the most files in the list
MaxSelected == 3

\* the most analyses started
MaxRuns == 2

\* the outcomes of window.electronAPI.detectBatchPlagiarism: a result with
\* success, a result without, a rejected promise
BatchOutcomes == {"success", "failure", "rejected"}

\* selectedFiles.map(f => ({ ...f, status }))
WithStatus(files, status) == [k \in 1..Len(files) |-> status]

\* selectedFiles.filter(f => f.id !== fileId) for the file at position k
WithoutFile(files, k) == [n \in 1..(Len(files) - 1) |-> IF n < k THEN files[n] ELSE files[n + 1]]

\* [...selectedFiles, ...newFiles] with n new files
WithNewFiles(files, n) == files \o [k \in 1..n |-> "pending"]

\* startAnalysis from its guards to `await detectBatchPlagiarism`; the button
\* that calls it is disabled while isAnalyzing; selectedFiles is the list of
\* the render the handler belongs to and stays so after the await
StartAnalysis ==
  /\ dashboard.pc = "mounted"
  /\ ~dashboard.isAnalyzing
  /\ Len(dashboard.files) >= 2
  /\ dashboard.electronAPI
  /\ dashboard.runs < MaxRuns
  /\ dashboard' = [dashboard EXCEPT
       !.isAnalyzing = TRUE,
       !.analysisProgress = 0,
       !.files = WithStatus(dashboard.files, "analyzing"),
       !.runPc = "awaitBatch",
       !.runFiles = dashboard.files,
       !.handed = WithStatus(dashboard.files, "analyzing"),
       !.runs = @ + 1]
  /\ UNCHANGED <<detectorVars, calls, http, shell>>

\* startAnalysis after the await: the success branch, or the catch block,
\* then the finally block
BatchSettles(outcome) ==
  /\ dashboard.runPc = "awaitBatch"
  /\ LET status == IF outcome = "success" THEN "completed" ELSE "error"
     IN dashboard' = [dashboard EXCEPT
          !.files = WithStatus(dashboard.runFiles, status),
          !.handed = WithStatus(dashboard.runFiles, status),
          !.outcome = outcome,
          !.isAnalyzing = FALSE,
          !.analysisProgress = 100,
          !.runPc = "ended"]
  /\ UNCHANGED <<detectorVars, calls, http, shell>>

\* handleElectronFileSelect up to `await openFiles()`, or handleFiles up to
\* `await file.text()`: the handler keeps the list of its render
SelectFiles ==
  /\ dashboard.pc = "mounted"
  /\ dashboard.loadPc = "idle"
  /\ dashboard' = [dashboard EXCEPT !.loadPc = "awaitFiles", !.loadFiles = dashboard.files]
  /\ UNCHANGED <<detectorVars, calls, http, shell>>

\* the rest of the handler, with n files read: onFilesChange([...selectedFiles,
\* ...newFiles]), or nothing when no file was chosen
FilesLoaded(n) ==
  /\ dashboard.loadPc = "awaitFiles"
  /\ Len(dashboard.loadFiles) + n <= MaxSelected
  /\ dashboard' = [dashboard EXCEPT
       !.loadPc = "idle",
       !.loadFiles = << >>,
       !.files = IF n > 0 THEN WithNewFiles(dashboard.loadFiles, n) ELSE @]
  /\ UNCHANGED <<detectorVars, calls, http, shell>>

\* removeFile for the file at position k of the list shown
RemoveFile(k) ==
  /\ dashboard.pc = "mounted"
  /\ k \in 1..Len(dashboard.files)
  /\ dashboard' = [dashboard EXCEPT !.files = WithoutFile(dashboard.files, k)]
  /\ UNCHANGED <<detectorVars, calls, http, shell>>

\* the button that empties the list: onFilesChange([])
ClearFiles ==
  /\ dashboard.pc = "mounted"
  /\ dashboard.files # << >>
  /\ dashboard' = [dashboard EXCEPT !.files = << >>]
  /\ UNCHANGED <<detectorVars, calls, http, shell>>

\* the dashboard just mounted, with or without the Electron API
InitDashboard ==
  /\ constructed = TRUE
  /\ kgramSize = 8
  /\ windowSize = 15
  /\ syntacticWeight = Rat(1, 1)
  /\ initialized = TRUE
  /\ fileA = << >>
  /\ fileB = << >>
  /\ run1 = NoRun
  /\ run2 = NoRun
  /\ batch = NoBatch
  /\ scored = NoScore
  /\ calls = NoCalls
  /\ http = NoHttp
  /\ \E api \in BOOLEAN :
       dashboard = [pc               |-> "mounted",
                    electronAPI      |-> api,
                    files            |-> << >>,
                    isAnalyzing      |-> FALSE,
                    analysisProgress |-> 0,
                    runPc            |-> "idle",
                    runFiles         |-> << >>,
                    handed           |-> << >>,
                    outcome          |-> "none",
                    runs             |-> 0,
                    loadPc           |-> "idle",
                    loadFiles        |-> << >>]
  /\ shell = NoShell

NextDashboard ==
  \/ StartAnalysis
  \/ \E outcome \in BatchOutcomes : BatchSettles(outcome)
  \/ SelectFiles
  \/ \E n \in 0..MaxSelected : FilesLoaded(n)
  \/ \E k \in 1..MaxSelected : RemoveFile(k)
  \/ ClearFiles

SpecDashboard == InitDashboard /\ [][NextDashboard]_vars

\* the promise of detectBatchPlagiarism settles: the main process answers
\* every ipcRenderer.invoke with the handler's result or its exception
SpecDashboardFair ==
  SpecDashboard /\ WF_vars(\E outcome \in BatchOutcomes : BatchSettles(outcome))

\* ------------------------------------------------------------------------
\* The desktop shell: the app events of the Electron main process
\* ------------------------------------------------------------------------

\* maxAttempts of waitForBackend (30 in the code)
MaxAttempts == 5

\* the most windows created in one run of the app
MaxWindows == 3

\* what a health check can come to: status 'ok', another answer, an error
\* or a time-out
HealthAnswers == {"ok", "other", "error"}

\* createWindow(): a window more; it is early when waitForBackend has not
\* returned true or the IPC handlers are not registered
createWindow(sh) ==
  [sh EXCEPT !.windows = @ + 1,
             !.created = @ + 1,
             !.early = @ \/ ~sh.backendReady \/ ~sh.ipcRegistered]

\* the answers to the dialog of the 'ready' handler: 0 is Retry, 1 is Quit
DialogChoices == {0, 1}

\* the 'ready' handler after waitForBackend returned false: the dialog,
\* app.relaunch() on Retry, then app.quit(), which closes every window
GiveUp(sh, choice) ==
  [sh EXCEPT !.pc = "quit", !.gaveUp = TRUE, !.windows = 0, !.relaunch = (choice = 0)]

\* waitForBackend at the head of its loop with i attempts made: the next
\* health check, or false when no attempt is left
NextAttempt(sh, i, choice) ==
  IF i < MaxAttempts
  THEN [sh EXCEPT !.pc = "health", !.attempts = i]
  ELSE GiveUp([sh EXCEPT !.attempts = i], choice)

\* app 'ready': the handler runs to the first axios.get of waitForBackend
Ready ==
  /\ shell.pc = "launched"
  /\ \E choice \in DialogChoices : shell' = NextAttempt(shell, 0, choice)
  /\ UNCHANGED <<detectorVars, calls, http, dashboard>>

\* the health check settles: with status 'ok' waitForBackend returns true
\* and the handler registers the IPC handlers and creates the window; with
\* another answer the loop goes on at once; after an error it sleeps
HealthSettles(answer) ==
  /\ shell.pc = "health"
  /\ \E choice \in DialogChoices :
       shell' =
         IF answer = "ok"
         THEN createWindow([shell EXCEPT !.pc = "running",
                                         !.backendReady = TRUE,
                                         !.ipcRegistered = TRUE])
         ELSE IF answer = "other" THEN NextAttempt(shell, shell.attempts + 1, choice)
         ELSE [shell EXCEPT !.pc = "sleep"]
  /\ UNCHANGED <<detectorVars, calls, http, dashboard>>

\* the one second of setTimeout after a failed health check is over
TimerFires ==
  /\ shell.pc = "sleep"
  /\ \E choice \in DialogChoices : shell' = NextAttempt(shell, shell.attempts + 1, choice)
  /\ UNCHANGED <<detectorVars, calls, http, dashboard>>

\* app 'activate' (macOS, once the app is ready): a window when there is none
Activate ==
  /\ shell.platform = "darwin"
  /\ shell.pc \in {"health", "sleep", "running"}
  /\ shell.created < MaxWindows
  /\ shell.windows = 0
  /\ shell' = createWindow(shell)
  /\ UNCHANGED <<detectorVars, calls, http, dashboard>>

\* the user closes a window; 'window-all-closed' quits the app except on
\* macOS
CloseWindow ==
  /\ shell.pc # "quit"
  /\ shell.windows > 0
  /\ shell' = [shell EXCEPT
       !.windows = @ - 1,
       !.pc = IF shell.windows = 1 /\ shell.platform # "darwin" THEN "quit" ELSE @]
  /\ UNCHANGED <<detectorVars, calls, http, dashboard>>

\* the app launched, no event handled yet
InitShell ==
  /\ constructed = TRUE
  /\ kgramSize = 8
  /\ windowSize = 15
  /\ syntacticWeight = Rat(1, 1)
  /\ initialized = FALSE
  /\ fileA = << >>
  /\ fileB = << >>
  /\ run1 = NoRun
  /\ run2 = NoRun
  /\ batch = NoBatch
  /\ scored = NoScore
  /\ calls = NoCalls
  /\ http = NoHttp
  /\ dashboard = NoDashboard
  /\ \E platform \in {"darwin", "linux"} :
       shell = [pc            |-> "launched",
                platform      |-> platform,
                attempts      |-> 0,
                backendReady  |-> FALSE,
                ipcRegistered |-> FALSE,
                windows       |-> 0,
                created       |-> 0,
                early         |-> FALSE,
                gaveUp        |-> FALSE,
                relaunch      |-> FALSE]

NextShell ==
  \/ Ready
  \/ \E answer \in HealthAnswers : HealthSettles(answer)
  \/ TimerFires
  \/ Activate
  \/ CloseWindow

SpecShell == InitShell /\ [][NextShell]_vars

\* ------------------------------------------------------------------------
\* Claims
\* ------------------------------------------------------------------------

\* the adaptive table of the claim, keyed on the pair similarity s and the
\* number F of significant fragments
AdaptiveTable(s, F) ==
  IF RLt(Rat(4, 5), s) /\ F > 5 THEN Rat(7, 10)
  ELSE IF RLt(Rat(3, 5), s) /\ F > 3 THEN Rat(1, 2)
  ELSE IF RLt(Rat(2, 5), s) /\ F > 1 THEN Rat(7, 20)
  ELSE Rat(3, 10)

\* the first call returned a result and the caller supplied no threshold
AdaptiveRun == run1.done /\ ~run1.threw /\ run1.customThreshold = Undefined

\* C1 as stated: with no threshold supplied, isPlagiarism = (s >= tau) for
\* the pair similarity s and tau from the adaptive table on (s, F), whatever
\* syntacticWeight is.
C1_VerdictOnPairSimilarity ==
  AdaptiveRun =>
    LET res == run1.result
        tau == AdaptiveTable(res.syntacticSimilarity, Len(res.mappedFragments))
    IN res.isPlagiarism = RLeq(tau, res.syntacticSimilarity)

\* C1 amended: with no threshold supplied, isPlagiarism =
\* (overallSimilarity >= tau) where overallSimilarity is the pair similarity
\* s times syntacticWeight and tau comes from the adaptive table on (s, F).
C1_VerdictOnOverallSimilarity ==
  AdaptiveRun =>
    LET res == run1.result
        tau == AdaptiveTable(res.syntacticSimilarity, Len(res.mappedFragments))
    IN /\ REq(res.overallSimilarity, RMul(res.syntacticSimilarity, syntacticWeight))
       /\ res.isPlagiarism = RLeq(tau, res.overallSimilarity)

\* a pair of similarity 0.9 with six fragments, weighted by one half: tau is
\* 0.7, the pair similarity is above it and the verdict is false
C1_Witness ==
  /\ AdaptiveRun
  /\ REq(syntacticWeight, Rat(1, 2))
  /\ REq(run1.result.syntacticSimilarity, Rat(9, 10))
  /\ Len(run1.result.mappedFragments) = 6
  /\ ~run1.result.isPlagiarism

\* both calls returned, on the same files in the same order
RepeatedRuns ==
  /\ run1.done /\ run2.done
  /\ run2.file1 = run1.file1 /\ run2.file2 = run1.file2

\* C2: for two thresholds t1 <= t2 supplied on the same files, a false
\* verdict under t1 means a false verdict under t2.
C2_ThresholdMonotonicity ==
  \A lo, hi \in {run1, run2} :
    (/\ RepeatedRuns
     /\ ~lo.threw /\ ~hi.threw
     /\ lo.customThreshold # Undefined /\ hi.customThreshold # Undefined
     /\ RLeq(lo.customThreshold, hi.customThreshold)
     /\ ~lo.result.isPlagiarism)
    => ~hi.result.isPlagiarism

\* thresholds 0.25 and then 0.5 on a pair that shares fingerprints: the
\* verdict is false under both
C2_Witness ==
  /\ RepeatedRuns
  /\ ~run1.threw /\ ~run2.threw
  /\ run1.customThreshold = Rat(1, 4)
  /\ run2.customThreshold = Rat(1, 2)
  /\ RLt(Rat(0, 1), run1.result.overallSimilarity)
  /\ ~run1.result.isPlagiarism
  /\ ~run2.result.isPlagiarism

\* both calls returned, with the same files and the same threshold
SameCalls == RepeatedRuns /\ run2.customThreshold = run1.customThreshold

WithoutTime(res) == [res EXCEPT !.processingTime = 0]

ResultsFor(results, i, j) ==
  Cardinality({k \in 1..Len(results) :
                 /\ results[k].file1 = ToString(i)
                 /\ results[k].file2 = ToString(j)})

\* C4: a completed batch of N files has totalComparisons = |results| =
\* N * (N - 1) / 2, one result for every pair of indices i < j and none for
\* any other pair of indices.
C4_EveryPairOnce ==
  batch.pc = "done" =>
    LET N == Len(batch.files)
        results == batch.out.results
    IN /\ batch.out.totalComparisons = Len(results)
       /\ 2 * Len(results) = N * (N - 1)
       /\ \A i, j \in 1..N :
            ResultsFor(results, i, j) = IF i < j THEN 1 ELSE 0

\* a completed batch of three files, the first and the last the same text
C4_Witness ==
  /\ batch.pc = "done"
  /\ Len(batch.files) = 3
  /\ batch.files[1].content = batch.files[3].content
  /\ batch.files[1].content # << >>
  /\ batch.out.totalComparisons = 3

\* how many entries of seq equal r
Occurrences(seq, r) == Cardinality({k \in 1..Len(seq) : seq[k] = r})

\* C5: the results of a completed batch are in non-increasing order of
\* overallSimilarity and are a permutation of the results of the loop.
C5_SortedPermutation ==
  batch.pc = "done" =>
    LET results == batch.out.results
    IN /\ \A k \in 1..(Len(results) - 1) :
            RLeq(results[k + 1].overallSimilarity, results[k].overallSimilarity)
       /\ Len(results) = Len(batch.unsorted)
       /\ \A k \in 1..Len(results) :
            Occurrences(results, results[k]) = Occurrences(batch.unsorted, results[k])

\* a completed batch whose loop produced its results in increasing order of
\* overallSimilarity
C5_Witness ==
  /\ batch.pc = "done"
  /\ Len(batch.unsorted) = 3
  /\ RLt(batch.unsorted[1].overallSimilarity, batch.unsorted[2].overallSimilarity)
  /\ RLt(batch.unsorted[2].overallSimilarity, batch.unsorted[3].overallSimilarity)

\* C6: a batch never fails as a whole: a LexError on one file of a pair
\* leaves the batch running, the pair reported with similarity 0 and no
\* mapped fragments.
C6_BatchSurvivesLexError == batch.pc # "failed"

\* the first call, on a detector with valid parameters, returned or threw
\* and one of its files has no tokens
EmptyFileRun ==
  /\ run1.done
  /\ kgramSize >= 2 /\ windowSize >= 1
  /\ \/ /\ tokenizeFile(run1.file1.content).ok
        /\ tokenizeFile(run1.file1.content).tokens = << >>
     \/ /\ tokenizeFile(run1.file2.content).ok
        /\ tokenizeFile(run1.file2.content).tokens = << >>

\* C7: when one of the two files has no tokens, detectPlagiarism does not
\* throw and returns overallSimilarity 0, no mapped fragments and
\* isPlagiarism false, for every threshold, none and 0 included.
C7_EmptyFile ==
  EmptyFileRun =>
    /\ ~run1.threw
    /\ REq(run1.result.overallSimilarity, Rat(0, 1))
    /\ run1.result.mappedFragments = << >>
    /\ ~run1.result.isPlagiarism

\* C8: no detector exists with kgramSize < 2 or windowSize < 1, and no call
\* of detectPlagiarism runs with such parameters.
C8_InvalidParameter ==
  constructed => kgramSize >= 2 /\ windowSize >= 1

\* one fragment has been scored
FragmentScored == scored.done /\ scored.step = "fragment"

\* C11 as stated: confidence = min(1, 0.4 * min(1, T / 50) +
\* 0.3 * min(1, 0.1 * P) + 0.3 * min(1, P / max(1, R))).
C11_WeightedConfidence ==
  FragmentScored =>
    LET T == scored.tokenCount
        P == scored.pairCount
        R == scored.kgramRange
        t1 == IF T >= 50 THEN Rat(4, 10) ELSE Rat(4 * T, 500)
        t2 == IF P >= 10 THEN Rat(3, 10) ELSE Rat(3 * P, 100)
        t3 == IF P >= Max(1, R) THEN Rat(3, 10) ELSE Rat(3 * P, 10 * Max(1, R))
        sum == RAdd(RAdd(t1, t2), t3)
    IN REq(scored.confidence, IF RLeq(Rat(1, 1), sum) THEN Rat(1, 1) ELSE sum)

\* C11 amended: confidence = min(1, min(0.4, T / 50) + min(0.3, 0.1 * P) +
\* min(0.3, 0.3 * P / max(1, R))): the terms are capped at 0.4, 0.3 and
\* 0.3, not weighted by them.
C11_CappedConfidence ==
  FragmentScored =>
    LET T == scored.tokenCount
        P == scored.pairCount
        R == scored.kgramRange
        t1 == IF T >= 20 THEN Rat(4, 10) ELSE Rat(T, 50)
        t2 == IF P >= 3 THEN Rat(3, 10) ELSE Rat(P, 10)
        t3 == IF P >= Max(1, R) THEN Rat(3, 10) ELSE Rat(3 * P, 10 * Max(1, R))
        sum == RAdd(RAdd(t1, t2), t3)
    IN REq(scored.confidence, IF RLeq(Rat(1, 1), sum) THEN Rat(1, 1) ELSE sum)

\* ten shared tokens, two shared k-grams over a range of four: 0.2 + 0.2 +
\* 0.15
C11_Witness ==
  /\ FragmentScored
  /\ scored.tokenCount = 10 /\ scored.pairCount = 2 /\ scored.kgramRange = 4
  /\ REq(scored.confidence, Rat(55, 100))

\* C12: fragmentType is EXACT iff confidence >= 0.8, SIMILAR iff
\* 0.6 <= confidence < 0.8, STRUCTURAL iff confidence < 0.6.
C12_FragmentType ==
  FragmentScored =>
    /\ scored.fragmentType \in {"EXACT", "SIMILAR", "STRUCTURAL"}
    /\ scored.fragmentType = "EXACT" <=> RLeq(Rat(4, 5), scored.confidence)
    /\ scored.fragmentType = "SIMILAR" <=>
         (RLeq(Rat(3, 5), scored.confidence) /\ RLt(scored.confidence, Rat(4, 5)))
    /\ scored.fragmentType = "STRUCTURAL" <=> RLt(scored.confidence, Rat(3, 5))

\* a fragment of confidence exactly 0.8 is EXACT
C12_Witness ==
  /\ FragmentScored
  /\ REq(scored.confidence, Rat(4, 5))
  /\ scored.fragmentType = "EXACT"

\* the fragments built from one pair have been filtered
FragmentsFiltered == scored.done /\ scored.step = "filter"

\* C13: mappedFragments holds exactly the built fragments with confidence
\* >= 0.3 and |sharedTokens| >= kgramSize, in build order and with the
\* fragmentId they were built with; significantMappedFragments is its length
\* and is at most totalMappedFragments, the number of built fragments.
C13_SignificanceFilter ==
  FragmentsFiltered =>
    LET built == scored.built
        kept == scored.result.mappedFragments
        passes == {n \in 1..Len(built) :
                     /\ ~RLt(built[n].confidence, Rat(3, 10))
                     /\ Len(built[n].sharedTokens) >= kgramSize}
    IN /\ {kept[i].fragmentId : i \in 1..Len(kept)} = passes
       /\ \A i \in 1..Len(kept) : kept[i] = built[kept[i].fragmentId]
       /\ \A i, j \in 1..Len(kept) : i < j => kept[i].fragmentId < kept[j].fragmentId
       /\ scored.result.significantMappedFragments = Len(kept)
       /\ scored.result.totalMappedFragments = Len(built)
       /\ Len(kept) <= scored.result.totalMappedFragments

\* of three built fragments the first fails on confidence, the second on its
\* token count, and the third is kept with fragmentId 3
C13_Witness ==
  /\ FragmentsFiltered
  /\ Len(scored.built) = 3
  /\ RLt(scored.built[1].confidence, Rat(3, 10))
  /\ Len(scored.built[1].sharedTokens) >= kgramSize
  /\ RLeq(Rat(3, 10), scored.built[2].confidence)
  /\ Len(scored.built[2].sharedTokens) < kgramSize
  /\ Len(scored.result.mappedFragments) = 1
  /\ scored.result.mappedFragments[1].fragmentId = 3
  /\ REq(scored.result.mappedFragments[1].confidence, Rat(3, 10))

\* a confidence label has been computed
ConfidenceLabelled == scored.done /\ scored.step = "label"

\* the points of the additive score but those of the syntactic similarity
LabelScoreBut(overall, syntactic, mapping) ==
    (IF RLeq(overall, Rat(2, 5)) THEN 1
     ELSE IF RLeq(overall, Rat(3, 5)) THEN 2
     ELSE IF RLeq(overall, Rat(4, 5)) THEN 3 ELSE 4)
  + (IF syntactic.longestFragment >= 11 THEN 1 ELSE 0)
  + (IF RLeq(syntactic.coverage1, Rat(1, 2)) /\ RLeq(syntactic.coverage2, Rat(1, 2))
     THEN 0 ELSE 1)
  + (IF mapping.significantMappedFragments >= 6 THEN 2 ELSE 0)
  + (IF mapping.totalSharedLines >= 21 THEN 1 ELSE 0)

\* the label of an additive score
LabelOfScore(score) ==
  IF score >= 8 THEN "VERY_HIGH"
  ELSE IF score \in 6..7 THEN "HIGH"
  ELSE IF score \in 4..5 THEN "MEDIUM"
  ELSE "LOW"

\* C14 as stated: the label is that of the additive score with +2 if the
\* syntactic similarity is >= 0.7.
C14_LabelSyntacticAtLeast ==
  ConfidenceLabelled =>
    scored.confidence =
      LabelOfScore(LabelScoreBut(scored.overallSimilarity, scored.syntactic, scored.mapping)
                   + (IF RLeq(Rat(7, 10), scored.syntactic.similarity) THEN 2 ELSE 0))

\* C14 amended: the label is that of the additive score with +2 if the
\* syntactic similarity is > 0.7 (bucket of overallSimilarity 4 if > 0.8, 3
\* if > 0.6, 2 if > 0.4, else 1; +1 if longestFragment > 10; +1 if either
\* coverage > 0.5; +2 if significantMappedFragments > 5; +1 if
\* totalSharedLines > 20): VERY_HIGH iff >= 8, HIGH iff 6..7, MEDIUM iff
\* 4..5, LOW otherwise.
C14_LabelSyntacticAbove ==
  ConfidenceLabelled =>
    scored.confidence =
      LabelOfScore(LabelScoreBut(scored.overallSimilarity, scored.syntactic, scored.mapping)
                   + (IF RLt(Rat(7, 10), scored.syntactic.similarity) THEN 2 ELSE 0))

\* a syntactic similarity of exactly 0.7 with a score of 3 + 1 + 1: MEDIUM,
\* where two more points would give HIGH
C14_Witness ==
  /\ ConfidenceLabelled
  /\ REq(scored.syntactic.similarity, Rat(7, 10))
  /\ REq(scored.overallSimilarity, Rat(7, 10))
  /\ scored.syntactic.longestFragment = 11
  /\ REq(scored.syntactic.coverage1, Rat(11, 20))
  /\ scored.mapping.significantMappedFragments = 5
  /\ scored.mapping.totalSharedLines = 20
  /\ scored.confidence = "MEDIUM"

\* a batch has returned its BatchResult
BatchReturned == batch.pc = "done"

\* the overallSimilarity of the results of the loop as integers over their
\* common denominator
ScaledSimilarities(results) ==
  LET D == LcmOfDenominators([k \in 1..Len(results) |-> results[k].overallSimilarity])
  IN [k \in 1..Len(results) |->
        results[k].overallSimilarity[1] * (D \div results[k].overallSimilarity[2])]

\* n * D for n results of common denominator D
ScaledCount(results) ==
  Len(results) * LcmOfDenominators([k \in 1..Len(results) |-> results[k].overallSimilarity])

\* the sum of the squared differences of every two of the values a: with n
\* values of sum S, the mean is S / n and the standard deviation is
\* sqrt(SquaredSpread) / n
SquaredSpread(a) ==
  SumSeq([k \in 1..(Len(a) * Len(a)) |->
            LET i == ((k - 1) \div Len(a)) + 1
                j == ((k - 1) % Len(a)) + 1
            IN IF i < j THEN (a[i] - a[j]) * (a[i] - a[j]) ELSE 0])

\* (S + 1.5 * sqrt(Q)) / nD compared with p / q
DevAtMost(S, Q, nD, p, q) ==
  /\ q * S <= p * nD
  /\ 9 * q * q * Q <= 4 * (p * nD - q * S) * (p * nD - q * S)

DevAtLeast(S, Q, nD, p, q) ==
  \/ q * S >= p * nD
  \/ 9 * q * q * Q >= 4 * (p * nD - q * S) * (p * nD - q * S)

\* t is clamp((S + 1.5 * sqrt(Q)) / nD, 0.25, 0.8); a value strictly inside
\* is a rational when Q = 0 and the triple <<S, Q, nD>> otherwise
IsClampOf(t, S, Q, nD) ==
  IF DevAtMost(S, Q, nD, 1, 4) THEN Len(t) = 2 /\ REq(t, Rat(1, 4))
  ELSE IF DevAtLeast(S, Q, nD, 4, 5) THEN Len(t) = 2 /\ REq(t, Rat(4, 5))
  ELSE IF Q = 0 THEN Len(t) = 2 /\ REq(t, Rat(S, nD))
  ELSE Len(t) = 3 /\ REq(<<t[1], t[3]>>, Rat(S, nD)) /\ t[2] * nD * nD = Q * t[3] * t[3]

\* t lies in [0.25, 0.8]
InThresholdRange(t) ==
  IF Len(t) = 2 THEN RLeq(Rat(1, 4), t) /\ RLeq(t, Rat(4, 5))
  ELSE DevAtLeast(t[1], t[2], t[3], 1, 4) /\ DevAtMost(t[1], t[2], t[3], 4, 5)

\* C15 as stated: without a threshold the batch threshold is clamp(mean +
\* 1.5 * stddev of the results' overallSimilarity, 0.25, 0.8), in
\* [0.25, 0.8], for every batch, one without pairs included (no values: sum
\* 0, spread 0); with a threshold it is the supplied value.
C15_BatchThreshold ==
  BatchReturned =>
    IF batch.customThreshold = Undefined
    THEN /\ IsClampOf(batch.out.threshold, SumSeq(ScaledSimilarities(batch.unsorted)),
                      SquaredSpread(ScaledSimilarities(batch.unsorted)),
                      ScaledCount(batch.unsorted))
         /\ InThresholdRange(batch.out.threshold)
    ELSE batch.out.threshold = batch.customThreshold

\* C15 amended: without a threshold the batch threshold is clamp(mean +
\* 1.5 * stddev of the results' overallSimilarity, 0.25, 0.8) for every batch
\* that produced at least one pair and 0.3 for a batch that produced none,
\* in [0.25, 0.8] in both cases; with a threshold it is the supplied value.
C15_BatchThresholdOfPairs ==
  BatchReturned =>
    IF batch.customThreshold = Undefined
    THEN /\ IF batch.unsorted = << >>
            THEN batch.out.threshold = Rat(3, 10)
            ELSE IsClampOf(batch.out.threshold,
                           SumSeq(ScaledSimilarities(batch.unsorted)),
                           SquaredSpread(ScaledSimilarities(batch.unsorted)),
                           ScaledCount(batch.unsorted))
         /\ InThresholdRange(batch.out.threshold)
    ELSE batch.out.threshold = batch.customThreshold

\* three pairs of different similarities and no threshold: the batch
\* threshold is the mean plus 1.5 deviations, strictly inside the range
C15_Witness ==
  /\ BatchReturned
  /\ batch.customThreshold = Undefined
  /\ Len(batch.unsorted) = 3
  /\ Len(batch.out.threshold) = 3
  /\ batch.out.threshold[2] > 0

\* the first call of detectPlagiarism has returned a result
FirstReturned == run1.done /\ ~run1.threw

\* the fragments built from the pair of the files of a run
BuiltFragmentsOf(run) ==
  buildFragments(getPair(tokenizeFile(run.file1.content), tokenizeFile(run.file2.content),
                         kgramSize, windowSize), 1)

\* the shared k-grams of a fragment as (left position, right position)
SharedPositions(fragment) ==
  {<<fragment.pairs[k].left.index, fragment.pairs[k].right.index>> :
     k \in 1..Len(fragment.pairs)}

\* the fragments built count no more shared k-grams than the result reports
\* as sharedFragments, and no shared k-gram twice
WithinOverlap(built, result) ==
  /\ result.totalMappedFragments = Len(built)
  /\ \A i \in 1..Len(result.mappedFragments) :
       result.mappedFragments[i].sharedFingerprints =
         Len(built[result.mappedFragments[i].fragmentId].pairs)
  /\ SumSeq([n \in 1..Len(built) |-> Len(built[n].pairs)]) <= result.sharedFragments
  /\ \A n \in 1..Len(built) : Cardinality(SharedPositions(built[n])) = Len(built[n].pairs)
  /\ \A m, n \in 1..Len(built) :
       m # n => SharedPositions(built[m]) \cap SharedPositions(built[n]) = {}

\* C16: for every pair the sharedFingerprints of the fragments built from it
\* sum to at most the pair's overlap, reported as sharedFragments, and no
\* shared k-gram is counted in more than one fragment.
C16_FragmentsWithinOverlap ==
  FirstReturned => WithinOverlap(BuiltFragmentsOf(run1), run1.result)

\* a pair of which several fragments are built, one of them of several
\* shared k-grams
C16_Witness ==
  /\ FirstReturned
  /\ run1.result.totalMappedFragments >= 2
  /\ run1.result.sharedFragments >= 3
  /\ \E i \in 1..Len(run1.result.mappedFragments) :
       run1.result.mappedFragments[i].sharedFingerprints >= 2

\* one fragment has been mapped and filtered
FragmentMapped == scored.done /\ scored.step = "map"

LineCount(code) == Len(SplitLines(code, 1, << >>))

\* the row of the token at index in the tokens of code, 1 for an index
\* outside of them
RowOrOne(code, index) ==
  IF index < 0 \/ index >= Len(tokenizeFile(code).mapping) THEN 1
  ELSE tokenizeFile(code).mapping[index + 1]

\* the lines reported are those of the tokens at the ends of the token range
\* and lie in the file
LinesLookedUp(lines, range, code) ==
  /\ lines.start = RowOrOne(code, range.start)
  /\ lines.end = RowOrOne(code, range.end)
  /\ lines.start \in 1..LineCount(code)
  /\ lines.end \in 1..LineCount(code)

\* C18: the line of a token index is mapping[index].startRow, and 1 for an
\* index < 0 or >= |mapping|; every line number of file1Lines and file2Lines
\* of a mapped fragment lies in [1, number of lines of the file].
C18_LineLookup ==
  FragmentMapped =>
    \A n \in 1..Len(scored.built) :
      /\ LinesLookedUp(scored.built[n].file1Lines, scored.built[n].file1TokenRange,
                       scored.file1Code)
      /\ LinesLookedUp(scored.built[n].file2Lines, scored.built[n].file2TokenRange,
                       scored.file2Code)

\* a fragment that starts on line 2 of the left file and ends on its line 3,
\* and whose right end is past the last token of the right file
C18_Witness ==
  /\ FragmentMapped
  /\ scored.built[1].file1Lines.start = 2
  /\ scored.built[1].file1Lines.end = 3
  /\ scored.built[1].file2TokenRange.end >= Len(tokenizeFile(scored.file2Code).mapping)
  /\ scored.built[1].file2Lines.end = 1

\* the number of fingerprints selected in a text
SelectedCount(content) ==
  Cardinality(Fingerprints(tokenizeFile(content), kgramSize, windowSize).selected)

\* similarity is the Dice coefficient of an overlap and two totals, 0 when a
\* total is 0, and lies in [0, 1]
IsDice(similarity, overlap, leftTotal, rightTotal) ==
  /\ IF leftTotal = 0 \/ rightTotal = 0
     THEN REq(similarity, Rat(0, 1))
     ELSE REq(similarity, Rat(2 * overlap, leftTotal + rightTotal))
  /\ RLeq(Rat(0, 1), similarity)
  /\ RLeq(similarity, Rat(1, 1))

\* C19: the pair similarity is 2 * overlap / (leftTotal + rightTotal), with
\* overlap the number of SharedKGram entries of the cross product of
\* positions (reported as sharedFragments), lies in [0, 1], and is 0 when
\* either file has no selected fingerprints.
C19_PairSimilarity ==
  (FirstReturned /\ kgramSize >= 2 /\ windowSize >= 1) =>
    IsDice(run1.result.syntacticSimilarity, run1.result.sharedFragments,
           SelectedCount(run1.file1.content), SelectedCount(run1.file2.content))

\* the k-gram hashes of one file have been winnowed
FileWinnowed == scored.done /\ scored.step = "winnow"

\* the least integer not below a / b, for b > 0
Ceiling(a, b) == 0 - ((0 - a) \div b)

\* C20: for every token stream of length N and every assignment of hashes
\* to its k-grams, winnowing selects at most
\* ceil(2 * (N - K + 1) / (W + 1)) + 1 fingerprints.
C20_DensityBound ==
  FileWinnowed =>
    Cardinality(scored.selected)
      <= Ceiling(2 * (scored.tokenCount - kgramSize + 1), windowSize + 1) + 1

\* the tokens of ta from offset i and those of tb from offset j agree on a
\* run of L tokens
SharedRunAt(ta, tb, i, j, L) ==
  /\ i + L <= Len(ta)
  /\ j + L <= Len(tb)
  /\ \A d \in 1..L : ta[i + d] = tb[j + d]

\* both sides select a fingerprint of the same hash whose k-gram lies in
\* the run of W k-grams from i on the left and from j on the right
SelectedInRun(fa, fb, i, j, W) ==
  \E p \in fa.selected, q \in fb.selected :
    /\ p \in i..(i + W - 1)
    /\ q \in j..(j + W - 1)
    /\ fa.hashes[p + 1] = fb.hashes[q + 1]

\* the guarantee for the two tokenized files of a run and its result
GuaranteeHolds(ta, tb, fa, fb, K, W, result) ==
  \A i \in 0..Len(ta), j \in 0..Len(tb) :
    SharedRunAt(ta, tb, i, j, K + W - 1) =>
      SelectedInRun(fa, fb, i, j, W) /\ result.sharedFragments >= 1

\* C21: if the two files share a run of at least K + W - 1 equal
\* consecutive tokens, each file has a selected fingerprint whose k-gram
\* lies inside the run, one of the same hash is selected in both, and the
\* overlap of the pair is >= 1.
C21_WinnowingGuarantee ==
  (FirstReturned /\ kgramSize >= 1 /\ windowSize >= 1) =>
    GuaranteeHolds(tokenizeFile(run1.file1.content).tokens,
                   tokenizeFile(run1.file2.content).tokens,
                   Fingerprints(tokenizeFile(run1.file1.content), kgramSize, windowSize),
                   Fingerprints(tokenizeFile(run1.file2.content), kgramSize, windowSize),
                   kgramSize, windowSize, run1.result)

\* two different files of four tokens that share a run of three, with
\* k-grams of two tokens and windows of two hashes
C21_Witness ==
  /\ FirstReturned
  /\ kgramSize = 2 /\ windowSize = 2
  /\ Len(tokenizeFile(run1.file1.content).tokens) = 4
  /\ Len(tokenizeFile(run1.file2.content).tokens) = 4
  /\ run1.file1.content # run1.file2.content
  /\ SharedRunAt(tokenizeFile(run1.file1.content).tokens,
                 tokenizeFile(run1.file2.content).tokens, 1, 0, 3)
  /\ run1.result.sharedFragments >= 1

\* the number of selected positions of fa whose hash is selected in fb
CoveredCount(fa, fb) ==
  Cardinality({p \in fa.selected :
                 \E q \in fb.selected : fa.hashes[p + 1] = fb.hashes[q + 1]})

\* coverage is covered / max(1, total), lies in [0, 1] and is 0 for a
\* file without selected fingerprints
IsCoverage(coverage, covered, total) ==
  /\ coverage[2] # 0
  /\ REq(coverage, Rat(covered, IF total >= 1 THEN total ELSE 1))
  /\ RLeq(Rat(0, 1), coverage)
  /\ RLeq(coverage, Rat(1, 1))
  /\ total = 0 => REq(coverage, Rat(0, 1))

\* the coverages of a result are those of the fingerprints fa and fb
CoveragesOf(result, fa, fb) ==
  /\ IsCoverage(result.coverage1, CoveredCount(fa, fb), Cardinality(fa.selected))
  /\ IsCoverage(result.coverage2, CoveredCount(fb, fa), Cardinality(fb.selected))

\* C22: in every result coverage1 = leftCovered / max(1, leftTotal) and
\* coverage2 = rightCovered / max(1, rightTotal) lie in [0, 1], and are 0,
\* not undefined, when the file has no selected fingerprints.
C22_Coverages ==
  FirstReturned =>
    CoveragesOf(run1.result,
                Fingerprints(tokenizeFile(run1.file1.content), kgramSize, windowSize),
                Fingerprints(tokenizeFile(run1.file2.content), kgramSize, windowSize))

\* the second file has fewer tokens than a k-gram and no fingerprint, the
\* first has some: both coverages are 0
C22_Witness ==
  /\ FirstReturned
  /\ kgramSize = 2 /\ windowSize >= 1
  /\ SelectedCount(run1.file1.content) >= 2
  /\ Len(tokenizeFile(run1.file2.content).tokens) = 1
  /\ SelectedCount(run1.file2.content) = 0
  /\ REq(run1.result.coverage1, Rat(0, 1))
  /\ REq(run1.result.coverage2, Rat(0, 1))

\* r lies in [0, 1]
InUnit(r) == r[2] # 0 /\ RLeq(Rat(0, 1), r) /\ RLeq(r, Rat(1, 1))

\* min(1, P / max(1, T / K)) for K >= 1
ClaimedLocalSimilarity(P, T, K) ==
  IF T <= K THEN (IF P >= 1 THEN Rat(1, 1) ELSE Rat(0, 1))
  ELSE IF P * K >= T THEN Rat(1, 1)
  ELSE Rat(P * K, T)

\* C23: every MappedFragment has 0 <= confidence <= 1 and
\* 0 <= localSimilarity <= 1, with localSimilarity =
\* min(1, P / max(1, T / K)) for P shared k-grams and T shared tokens.
C23_UnitRanges ==
  /\ FragmentScored =>
       /\ InUnit(scored.confidence)
       /\ InUnit(scored.localSimilarity)
       /\ REq(scored.localSimilarity,
              ClaimedLocalSimilarity(scored.pairCount, scored.tokenCount, kgramSize))
  /\ FragmentMapped =>
       \A n \in 1..Len(scored.built) :
         /\ InUnit(scored.built[n].confidence)
         /\ InUnit(scored.built[n].localSimilarity)
         /\ REq(scored.built[n].localSimilarity,
                ClaimedLocalSimilarity(scored.built[n].sharedFingerprints,
                                       Len(scored.built[n].sharedTokens), kgramSize))

\* four shared k-grams of two tokens in 24 shared tokens: local similarity
\* 1/3, and a confidence that reaches the cap 1
C23_Witness ==
  /\ FragmentScored
  /\ kgramSize = 2
  /\ scored.tokenCount = 24 /\ scored.pairCount = 4
  /\ REq(scored.localSimilarity, Rat(1, 3))
  /\ REq(scored.confidence, Rat(1, 1))

\* a pair of the batch's files was evaluated on its own, after the batch and
\* with the threshold of the batch
PairAfterBatch == batch.pc \in {"done", "failed"} /\ run1.done
                  /\ run1.customThreshold = batch.customThreshold

\* C24: no state carries over between pair evaluations: the result of a
\* pair inside a batch equals, apart from processingTime, that of a
\* detectPlagiarism call on the same two files with the same threshold,
\* whatever the other files of the batch and whatever pairs were evaluated
\* or abandoned before.
C24_NoStateCarriesOver ==
  PairAfterBatch =>
    /\ run1.threw <=> (~tokenizeFile(run1.file1.content).ok
                         \/ ~tokenizeFile(run1.file2.content).ok)
    /\ batch.pc = "done" =>
         /\ ~run1.threw
         /\ \E k \in 1..Len(batch.unsorted) :
              /\ batch.unsorted[k].file1 = run1.file1.name
              /\ batch.unsorted[k].file2 = run1.file2.name
         /\ \A k \in 1..Len(batch.unsorted) :
              (/\ batch.unsorted[k].file1 = run1.file1.name
               /\ batch.unsorted[k].file2 = run1.file2.name)
              => WithoutTime(batch.unsorted[k]) = WithoutTime(run1.result)

\* a batch of three files with threshold 0.5 in which the pair evaluated
\* again, the last of three, is flagged and another pair is not
C24_Witness ==
  /\ PairAfterBatch
  /\ batch.pc = "done"
  /\ Len(batch.unsorted) = 3
  /\ batch.customThreshold = Rat(1, 2)
  /\ run1.file1.name = batch.unsorted[3].file1
  /\ run1.file2.name = batch.unsorted[3].file2
  /\ run1.result.isPlagiarism
  /\ ~batch.unsorted[1].isPlagiarism
  /\ run1.result.processingTime # batch.unsorted[3].processingTime

\* a verdict decided with syntacticWeight 1 and without a threshold
UnweightedAdaptiveRun ==
  /\ run1.done /\ ~run1.threw
  /\ REq(syntacticWeight, Rat(1, 1))
  /\ run1.customThreshold = Undefined

\* C25: with syntacticWeight 1 and no threshold supplied the adaptive
\* threshold never changes the verdict: isPlagiarism is true iff the
\* similarity is >= 0.3, for every fragment count.
C25_VerdictAtLowestTier ==
  UnweightedAdaptiveRun =>
    (run1.result.isPlagiarism <=> ~RLt(run1.result.syntacticSimilarity, Rat(3, 10)))

\* similarity 0.85 with six significant fragments: the tier 0.7 is chosen
\* and the verdict is true
C25_Witness ==
  /\ UnweightedAdaptiveRun
  /\ REq(run1.result.syntacticSimilarity, Rat(17, 20))
  /\ run1.result.significantMappedFragments = 6
  /\ run1.result.isPlagiarism

\* C26: under any interleaving of concurrent initialize, detectPlagiarism
\* and detectBatchPlagiarism calls on one detector the body of initialize
\* runs at most once, initialized never goes back from true to false, and
\* no call tokenizes a file while initialized is false.
C26_LazyInitialisation ==
  /\ [](calls.bodyRuns <= 1 /\ ~calls.tokenizedEarly)
  /\ [][initialized => initialized']_vars

\* a detectPlagiarism call ran the body of initialize and is still awaiting
\* it, while a batch started after it has tokenized a pair and a call of
\* initialize has returned
C26_Witness ==
  /\ calls.bodyRuns = 1
  /\ \E c, d \in CallIds :
       /\ calls.kind[c] = "detectPlagiarism" /\ calls.pc[c] = "awaitInitialize"
       /\ calls.kind[d] = "detectBatchPlagiarism" /\ calls.pc[d] = "awaitPair"
  /\ \E e \in CallIds : calls.kind[e] = "initialize" /\ calls.pc[e] = "done"

\* the number of results whose overallSimilarity is at least a threshold
CountAtLeast(results, threshold) ==
  Cardinality({k \in 1..Len(results) : RLeq(threshold, results[k].overallSimilarity)})

\* C27: in every batch result, with or without a caller-supplied threshold,
\* suspiciousPairs equals the number of entries of results whose
\* overallSimilarity is >= the threshold field of that same batch result.
C27_SuspiciousPairsMatchThreshold ==
  BatchReturned =>
    batch.out.suspiciousPairs = CountAtLeast(batch.out.results, batch.out.threshold)

\* a file of a request that is present with non-empty name and content
PresentFile(f) ==
  /\ f.kind = "object"
  /\ f.hasName /\ f.name # ""
  /\ f.hasContent /\ f.content # << >>

\* the requests that are to reach the detector
ValidRequest ==
  IF http.route = "/api/detect"
  THEN PresentFile(http.body.file1) /\ PresentFile(http.body.file2)
  ELSE /\ http.body.kind = "array"
       /\ Len(http.body.items) >= 2
       /\ \A k \in 1..Len(http.body.items) : PresentFile(http.body.items[k])

\* C28: POST /api/detect invokes the detector only when both files are
\* present with non-empty name and content, POST /api/detect-batch only when
\* files is an array of at least 2 such entries; every other request gets a
\* 400 response without the detector being called, a detector exception gets
\* a 500 response, and each request receives exactly one response.
C28_FacadeValidation ==
  http.pc \in {"awaitDetector", "responded"} =>
    /\ http.detectorCalls > 0 => ValidRequest
    /\ Len(http.responses) <= 1
    /\ http.pc = "responded" =>
         /\ Len(http.responses) = 1
         /\ ~ValidRequest => http.responses = <<400>> /\ http.detectorCalls = 0
         /\ (ValidRequest /\ DetectorRejects(http.inputs)) => http.responses = <<500>>

\* a batch request with a null entry has been answered
C28_NullEntryAnswered ==
  /\ http.pc = "responded"
  /\ http.route = "/api/detect-batch"
  /\ http.body.kind = "array"
  /\ \E k \in 1..Len(http.body.items) : http.body.items[k].kind = "null"

\* an analysis has passed its guards and awaits the batch
RunStarted == dashboard.runPc = "awaitBatch"

\* the analysis has ended
RunEnded ==
  /\ dashboard.runPc = "ended"
  /\ ~dashboard.isAnalyzing
  /\ dashboard.analysisProgress = 100

\* every file of a list has the status
AllStatus(files, status) == \A k \in 1..Len(files) : files[k] = status

\* C29: once startAnalysis has passed its guards every run eventually ends
\* with isAnalyzing = false and analysisProgress = 100, in the file list last
\* handed to onFilesChange by that run every file is 'completed' (batch
\* succeeded) or 'error' (batch failed or threw), and no file is left in
\* status 'analyzing' after the run has ended.
C29_AnalysisStatusFlow ==
  /\ RunStarted ~> RunEnded
  /\ [](dashboard.runPc = "ended" =>
          /\ AllStatus(dashboard.handed,
                       IF dashboard.outcome = "success" THEN "completed" ELSE "error")
          /\ \A k \in 1..Len(dashboard.files) : dashboard.files[k] # "analyzing")

\* C30: under any interleaving of the app events 'ready' and 'activate' a
\* BrowserWindow is created only after waitForBackend has returned true and
\* setupIPCHandlers has registered the IPC handlers; if the backend never
\* answers within the maxAttempts health checks, no window is ever created
\* and the app quits.
C30_StartupOrdering ==
  /\ ~shell.early
  /\ shell.gaveUp => shell.created = 0 /\ shell.pc = "quit"

\* the position ranges of the mapped fragments of a result
RangesOf(res) ==
  {[lines1 |-> res.mappedFragments[n].file1Lines,
    lines2 |-> res.mappedFragments[n].file2Lines,
    tokens1 |-> res.mappedFragments[n].file1TokenRange,
    tokens2 |-> res.mappedFragments[n].file2TokenRange] :
     n \in 1..Len(res.mappedFragments)}

\* the same ranges with the two files exchanged
SwappedRangesOf(res) ==
  {[lines1 |-> r.lines2, lines2 |-> r.lines1,
    tokens1 |-> r.tokens2, tokens2 |-> r.tokens1] : r \in RangesOf(res)}

\* both calls returned, the second with the files exchanged and the same threshold
SwappedRuns ==
  /\ run1.done /\ run2.done
  /\ ~run1.threw /\ ~run2.threw
  /\ run2.file1 = run1.file2 /\ run2.file2 = run1.file1
  /\ run1.file1 # run1.file2
  /\ run2.customThreshold = run1.customThreshold

\* C9: detect(a, b) and detect(b, a) report the same overallSimilarity, the
\* coverages exchanged and the line and token ranges of the mapped fragments
\* exchanged.
C9_Symmetry ==
  SwappedRuns =>
    /\ REq(run1.result.overallSimilarity, run2.result.overallSimilarity)
    /\ REq(run1.result.coverage1, run2.result.coverage2)
    /\ REq(run1.result.coverage2, run2.result.coverage1)
    /\ RangesOf(run1.result) = SwappedRangesOf(run2.result)

\* the first call compared a file of at least one token with a copy of
\* itself, on a detector with valid parameters, weight 1 and no threshold
IdenticalRun ==
  /\ run1.done
  /\ kgramSize >= 2 /\ windowSize >= 1
  /\ REq(syntacticWeight, Rat(1, 1))
  /\ run1.customThreshold = Undefined
  /\ run1.file1.content = run1.file2.content
  /\ tokenizeFile(run1.file1.content).ok
  /\ tokenizeFile(run1.file1.content).tokens # << >>

\* C10: comparing a file of at least one token with a copy of itself gives
\* overallSimilarity 1, coverage1 = coverage2 = 1 and isPlagiarism true.
C10_Identity ==
  IdenticalRun =>
    /\ ~run1.threw
    /\ REq(run1.result.overallSimilarity, Rat(1, 1))
    /\ REq(run1.result.coverage1, Rat(1, 1))
    /\ REq(run1.result.coverage2, Rat(1, 1))
    /\ run1.result.isPlagiarism

====
